---------------------------- MODULE Spec2Model ----------------------------
(***************************************************************************)
(* Device Monitor serial engine (src/device_monitor).                      *)
(*                                                                         *)
(* The module models DeviceMonitorFunctions.py (the globals, listen_port,  *)
(* parse_serial_data, wait_for_reboot, reconnect) and the two loops of     *)
(* DeviceMonitor.py that drive them (serial_console, update_status) plus   *)
(* the settings thread (update_settings).  Threads interleave between      *)
(* statements; a statement that tests a flag and the statement that sets   *)
(* it are separate steps.                                                  *)
(*                                                                         *)
(* Specifications:                                                         *)
(*   SpecQueue   reader + status poller on a long queue (500 / 200 limits) *)
(*   SpecFramer  the byte loop of listen_port                              *)
(*   SpecRetry   the reconnect loop of listen_port and serial_console      *)
(*   SpecSnapshot  reader, device-info request and settings request        *)
(*   SpecStatus  reader + status poller on a short queue                   *)
(***************************************************************************)
EXTENDS Integers, Sequences, FiniteSets, TLC

(***************************************************************************)
(* Bounds of the model.                                                    *)
(***************************************************************************)
\* lines the device delivers in one behaviour of SpecRetry, SpecSnapshot,
\* SpecStatus
MaxLines == 3
\* lines the device delivers in one behaviour of SpecQueue
MaxQueueLines == 2
\* queue lengths SpecQueue starts from (lines already queued)
FillPop == 200
FillClear == 500
\* lines in the queue when an extraction of SpecFields begins
MaxFieldLines == 2
\* reads (bytes and timed-out reads) of one behaviour of SpecFramer
MaxStream == 6
\* calls of listen_port that run into their 10 s limit, per behaviour
MaxTimeouts == 1

(***************************************************************************)
(* Program constants.                                                      *)
(***************************************************************************)
QueueClearLen == 500
QueuePopLen == 200
MaxRetries == 5
StateOffset == 20
EventOffset == 9

None == "None"

VALID_STATES ==
    {"Boot", "Stopped", "Moving", "Sleeping", "Reserved", "PwrProtect",
     "Idling", "Towing", "Speeding"}

EventCodes ==
    {"EVENT_IGNITION_ON", "IGNITION_OFF", "EVENT_VIRTUAL_IGN_ON",
     "VIRTUAL_IGN_OFF", "DEVICE_REBOOT", "END_OF_TOW"}

EVENTS(code) ==
    CASE code = "EVENT_IGNITION_ON"    -> "Ignition On"
      [] code = "IGNITION_OFF"         -> "Ignition Off"
      [] code = "EVENT_VIRTUAL_IGN_ON" -> "Virtual Ignition On"
      [] code = "VIRTUAL_IGN_OFF"      -> "Virtual Ignition Off"
      [] code = "DEVICE_REBOOT"        -> "Device Reboot"
      [] code = "END_OF_TOW"           -> "End of Tow"

HookVolts == "Vin"
HookState == "sats:"
HookEvent == ">< >< ><"
STATUS_HOOKS == {HookVolts, HookState, HookEvent}

Sentinel == "..."
BootMarker == "devStateChange: curr=Boot"

(***************************************************************************)
(* Python string operations used by the parsers.                           *)
(***************************************************************************)
\* s[a-1:b] with 1-based inclusive bounds; empty when the range is empty
Slice(s, a, b) == IF a > b \/ a > Len(s) THEN "" ELSE SubSeq(s, a, b)

\* s.find(pat) + 1: 1-based index of the first occurrence, 0 when absent
Find(s, pat) ==
    LET hits == {i \in 1..(Len(s) - Len(pat) + 1) :
                    SubSeq(s, i, i + Len(pat) - 1) = pat}
    IN  IF hits = {} THEN 0 ELSE CHOOSE i \in hits : \A j \in hits : i <= j

\* pat in s
Contains(s, pat) == Find(s, pat) > 0

\* s[n:] with the 0-based offset n
SliceFrom(s, n) == Slice(s, n + 1, Len(s))

\* s.split(sep)[0]
BeforeFirst(s, sep) ==
    IF Contains(s, sep) THEN Slice(s, 1, Find(s, sep) - 1) ELSE s

\* s.split(sep, 1)[1], defined when sep occurs in s
AfterFirst(s, sep) == Slice(s, Find(s, sep) + Len(sep), Len(s))

\* s.split(sep)[1], defined when sep occurs in s
SplitSecond(s, sep) == BeforeFirst(AfterFirst(s, sep), sep)

\* s.lstrip()
RECURSIVE Lstrip(_)
Lstrip(s) ==
    IF Len(s) > 0 /\ SubSeq(s, 1, 1) \in {" ", "\t", "\n", "\r"}
    THEN Lstrip(Slice(s, 2, Len(s)))
    ELSE s

\* line.split(hook)[1].split(' ')[0] + ' mV', without the lstrip()
MilliVolts_NoStrip(line, hook) ==
    BeforeFirst(SplitSecond(line, hook), " ") \o " mV"

\* line.split(hook)[1].lstrip().split(' ')[0] + ' mV'
MilliVolts(line, hook) ==
    BeforeFirst(Lstrip(SplitSecond(line, hook)), " ") \o " mV"

\* line[20:].split(' ')[0]
StateToken(line) == BeforeFirst(SliceFrom(line, StateOffset), " ")

\* line[9:].split(' ')[0]
EventCode(line) == BeforeFirst(SliceFrom(line, EventOffset), " ")

(***************************************************************************)
(* State.                                                                  *)
(***************************************************************************)
VARIABLES
    \* module globals of DeviceMonitorFunctions.py
    serial_connection,   \* [handle, port, is_open]: the Serial object, if any
    working_com_port,
    serial_safe,
    serial_data,         \* the line queue; a line is [id, text]
    data_safe,
    device_sleep,
    line_break_rx,
    line_break_tx,
    device_info,
    current_status,
    current_settings,
    \* the 'console' thread: serial_console calling listen_port
    rpc,                 \* position of the reader
    line,                \* listen_port's local line, as [id, text]
    ret,                 \* str() of the value listen_port returned last
    error_count,
    \* threads calling parse_serial_data: 'status' and 'settings'
    ppc,                 \* position of each thread
    target,              \* parse_serial_data's argument
    idx,                 \* index of the enumerate() iterator
    pline,               \* the loop variable line
    temp,                \* temp_sett / temp_ver
    kidx,                \* position in the key loop of an extraction
    \* history
    nlines,              \* lines listen_port has built so far
    returned,            \* texts of the lines listen_port has returned
    reads,               \* what every read() returned; "_" is an empty read
    timeouts,            \* calls of listen_port ended by their 10 s limit
    attempts,            \* results of the reconnect() calls of this failure
    waits,               \* one-second sleeps of this failure
    last_pushed,         \* id of the last line appended to the queue
    mark,                \* last_pushed when each extraction took its copy
    snapped,             \* ids of the lines some snapshot has held
    delivered_twice,     \* ids of the lines two snapshots have held
    evicted,             \* the line the reader's pop(0) removed in this push
    seen,                \* what this push read at lines 458, 469, 470, 475
    \* the thread of the window: the callers of the port functions
    api,                 \* the call in progress: position, arguments, result
    sent,                \* each thread's call of send_serial_command
    \* the window and its threads (DeviceMonitor.py)
    win,                 \* the flags and thread references of MainWindow
    thr                  \* each thread's position and locals

connVars   == <<serial_connection, working_com_port, serial_safe>>
breakVars  == <<line_break_rx, line_break_tx>>
recordVars == <<device_info, current_status, current_settings>>
parseVars  == <<ppc, target, idx, pline, temp, kidx>>
framerVars == <<reads, timeouts>>
retryVars  == <<error_count, attempts, waits>>
snapVars   == <<mark, snapped, delivered_twice>>
pushVars   == <<evicted, seen>>
threadVars == <<win, thr>>
ioVars     == <<api, sent, threadVars>>

vars ==
    <<connVars, serial_data, data_safe, device_sleep, breakVars, recordVars,
      rpc, line, ret, parseVars, framerVars, retryVars, nlines, returned,
      last_pushed, snapVars, pushVars, ioVars>>

ParseThreads == {"status", "settings"}

InfoKeys ==
    <<"main", "sett", "vcm", "vcm_cfg", "bt", "power", "imei", "imsi",
      "iccid", "msidn">>

INFO_HOOKS(key) == key \o "="

\* the keys of current_settings the model follows (of settings[01..122])
SettingKeys == <<"settings[06]", "settings[62]">>

NoLine == [id |-> 0, text |-> ""]

\* nothing read yet: the lengths read at lines 458 and 469, the flag at 470
NoSeen == [clear_len |-> -1, pop_len |-> -1, safe |-> "", latch |-> ""]

Texts(q) == [i \in 1..Len(q) |-> q[i].text]

(***************************************************************************)
(* The reader: serial_console and listen_port.                             *)
(***************************************************************************)
\* listen_port, lines 386-424 in one step: the byte loop has built a line
\* (or has timed out and built the sentinel); SpecFramer follows the loop
\* byte by byte
R_Line(inputs, max) ==
    /\ rpc = "listen"
    /\ serial_safe
    /\ nlines < max
    /\ \E text \in inputs :
            line' = [id |-> nlines + 1, text |-> text]
    /\ nlines' = nlines + 1
    /\ rpc' = "chk_event"
    /\ UNCHANGED <<ioVars,
                   connVars, serial_data, data_safe, device_sleep, breakVars,
                   recordVars, ret, parseVars, framerVars, retryVars,
                   returned, last_pushed, snapVars, pushVars>>

\* listen_port, lines 446-448: the connection is not safe to read
R_ListenClosed ==
    /\ rpc = "listen"
    /\ ~serial_safe
    /\ ret' = "Seral connection closed.\n"
    /\ rpc' = "console"
    /\ UNCHANGED <<ioVars,
                   connVars, serial_data, data_safe, device_sleep, breakVars,
                   recordVars, line, parseVars, framerVars, retryVars,
                   nlines, returned, last_pushed, snapVars, pushVars>>

ReaderFrame ==
    <<connVars, breakVars, parseVars, framerVars, retryVars, nlines,
      snapVars, ioVars>>

\* line 451 without the test: every push goes through lines 457-481
R_CheckEvent_NoWindow ==
    /\ rpc = "chk_event"
    /\ rpc' = "chk_clear"
    /\ UNCHANGED <<ReaderFrame, serial_data, data_safe, device_sleep,
                   recordVars, line, ret, returned, last_pushed, pushVars>>

\* line 451
R_CheckEvent ==
    /\ rpc = "chk_event"
    /\ rpc' = IF current_status.event = "Device Reboot"
              THEN "append_reboot" ELSE "chk_clear"
    /\ UNCHANGED <<ReaderFrame, serial_data, data_safe, device_sleep,
                   recordVars, line, ret, returned, last_pushed, pushVars>>

\* lines 452-453
R_AppendReboot ==
    /\ rpc = "append_reboot"
    /\ serial_data' = Append(serial_data, line)
    /\ last_pushed' = line.id
    /\ ret' = line.text
    /\ line' = NoLine
    /\ rpc' = "console"
    /\ UNCHANGED <<ReaderFrame, data_safe, device_sleep, recordVars, returned,
                   pushVars>>

\* line 458 with the limit one line too high
R_CheckClear_Late ==
    /\ rpc = "chk_clear"
    /\ rpc' = IF Len(serial_data) > QueueClearLen + 1
              THEN "ovf_wait" ELSE "chk_pop"
    /\ seen' = [seen EXCEPT !.clear_len = Len(serial_data)]
    /\ UNCHANGED <<ReaderFrame, serial_data, data_safe, device_sleep,
                   recordVars, line, ret, returned, last_pushed, evicted>>

\* line 458
R_CheckClear ==
    /\ rpc = "chk_clear"
    /\ rpc' = IF Len(serial_data) > QueueClearLen
              THEN "ovf_wait" ELSE "chk_pop"
    /\ seen' = [seen EXCEPT !.clear_len = Len(serial_data)]
    /\ UNCHANGED <<ReaderFrame, serial_data, data_safe, device_sleep,
                   recordVars, line, ret, returned, last_pushed, evicted>>

\* line 459: while not data_safe: pass
R_OvfWait ==
    /\ rpc = "ovf_wait"
    /\ data_safe
    /\ rpc' = "ovf_take"
    /\ UNCHANGED <<ReaderFrame, serial_data, data_safe, device_sleep,
                   recordVars, line, ret, returned, last_pushed, pushVars>>

\* line 460
R_OvfTake ==
    /\ rpc = "ovf_take"
    /\ data_safe' = FALSE
    /\ rpc' = "ovf_clear"
    /\ UNCHANGED <<ReaderFrame, serial_data, device_sleep, recordVars, line,
                   ret, returned, last_pushed, pushVars>>

\* lines 461-465 keeping the newest queued line instead of clearing
R_OvfClear_KeepsNewest ==
    /\ rpc = "ovf_clear"
    /\ serial_data' = IF serial_data = <<>> THEN <<>>
                      ELSE <<serial_data[Len(serial_data)]>>
    /\ rpc' = "ovf_release"
    /\ UNCHANGED <<ReaderFrame, data_safe, device_sleep, recordVars, line,
                   ret, returned, last_pushed, pushVars>>

\* lines 461-465: QueueFull is raised, caught and logged; the queue is cleared
R_OvfClear ==
    /\ rpc = "ovf_clear"
    /\ serial_data' = <<>>
    /\ rpc' = "ovf_release"
    /\ UNCHANGED <<ReaderFrame, data_safe, device_sleep, recordVars, line,
                   ret, returned, last_pushed, pushVars>>

\* line 466
R_OvfRelease ==
    /\ rpc = "ovf_release"
    /\ data_safe' = TRUE
    /\ rpc' = "chk_pop"
    /\ UNCHANGED <<ReaderFrame, serial_data, device_sleep, recordVars, line,
                   ret, returned, last_pushed, pushVars>>

\* line 469
R_CheckPop ==
    /\ rpc = "chk_pop"
    /\ rpc' = IF Len(serial_data) > QueuePopLen
              THEN "pop_flag" ELSE "chk_sleep"
    /\ seen' = [seen EXCEPT !.pop_len = Len(serial_data)]
    /\ UNCHANGED <<ReaderFrame, serial_data, data_safe, device_sleep,
                   recordVars, line, ret, returned, last_pushed, evicted>>

\* line 470
R_PopFlag ==
    /\ rpc = "pop_flag"
    /\ rpc' = IF data_safe THEN "pop_take" ELSE "chk_sleep"
    /\ seen' = [seen EXCEPT !.safe = IF data_safe THEN "yes" ELSE "no"]
    /\ UNCHANGED <<ReaderFrame, serial_data, data_safe, device_sleep,
                   recordVars, line, ret, returned, last_pushed, evicted>>

\* line 471
R_PopTake ==
    /\ rpc = "pop_take"
    /\ data_safe' = FALSE
    /\ rpc' = "pop"
    /\ UNCHANGED <<ReaderFrame, serial_data, device_sleep, recordVars, line,
                   ret, returned, last_pushed, pushVars>>

\* line 472 as pop(): the newest line is removed instead of the oldest
R_Pop_Newest ==
    /\ rpc = "pop"
    /\ IF serial_data = <<>>
       THEN /\ rpc' = "crashed"
            /\ UNCHANGED <<serial_data, evicted>>
       ELSE /\ serial_data' = SubSeq(serial_data, 1, Len(serial_data) - 1)
            /\ evicted' = serial_data[Len(serial_data)]
            /\ rpc' = "pop_release"
    /\ UNCHANGED <<ReaderFrame, data_safe, device_sleep, recordVars, line,
                   ret, returned, last_pushed, seen>>

\* line 472: pop(0); on an empty list it raises IndexError, which nothing
\* catches, and the 'console' thread ends there
R_Pop ==
    /\ rpc = "pop"
    /\ IF serial_data = <<>>
       THEN /\ rpc' = "crashed"
            /\ UNCHANGED <<serial_data, evicted>>
       ELSE /\ serial_data' = Tail(serial_data)
            /\ evicted' = Head(serial_data)
            /\ rpc' = "pop_release"
    /\ UNCHANGED <<ReaderFrame, data_safe, device_sleep, recordVars, line,
                   ret, returned, last_pushed, seen>>

\* line 473
R_PopRelease ==
    /\ rpc = "pop_release"
    /\ data_safe' = TRUE
    /\ rpc' = "chk_sleep"
    /\ UNCHANGED <<ReaderFrame, serial_data, device_sleep, recordVars, line,
                   ret, returned, last_pushed, pushVars>>

\* line 475 without the test of line 476: any line ends the sleep
R_CheckSleep_IgnoresDot ==
    /\ rpc = "chk_sleep"
    /\ rpc' = IF device_sleep THEN "set_stopped" ELSE "append"
    /\ seen' = [seen EXCEPT !.latch = IF device_sleep THEN "yes" ELSE "no"]
    /\ UNCHANGED <<ReaderFrame, serial_data, data_safe, device_sleep,
                   recordVars, line, ret, returned, last_pushed, evicted>>

\* lines 475-476
R_CheckSleep ==
    /\ rpc = "chk_sleep"
    /\ rpc' = IF device_sleep /\ ~Contains(line.text, ".")
              THEN "set_stopped" ELSE "append"
    /\ seen' = [seen EXCEPT !.latch = IF device_sleep THEN "yes" ELSE "no"]
    /\ UNCHANGED <<ReaderFrame, serial_data, data_safe, device_sleep,
                   recordVars, line, ret, returned, last_pushed, evicted>>

\* line 477
R_SetStopped ==
    /\ rpc = "set_stopped"
    /\ current_status' = [current_status EXCEPT !.state = "Stopped"]
    /\ rpc' = "clear_latch"
    /\ UNCHANGED <<ReaderFrame, serial_data, data_safe, device_sleep,
                   device_info, current_settings, line, ret, returned,
                   last_pushed, pushVars>>

\* line 478
R_ClearLatch ==
    /\ rpc = "clear_latch"
    /\ device_sleep' = FALSE
    /\ rpc' = "append"
    /\ UNCHANGED <<ReaderFrame, serial_data, data_safe, recordVars, line,
                   ret, returned, last_pushed, pushVars>>

\* lines 480-481 with serial_data.insert(0, line) for serial_data.append
R_Append_AtHead ==
    /\ rpc = "append"
    /\ serial_data' = <<line>> \o serial_data
    /\ last_pushed' = line.id
    /\ ret' = line.text
    /\ line' = NoLine
    /\ rpc' = "console"
    /\ UNCHANGED <<ReaderFrame, data_safe, device_sleep, recordVars, returned,
                   pushVars>>

\* lines 480-481
R_Append ==
    /\ rpc = "append"
    /\ serial_data' = Append(serial_data, line)
    /\ last_pushed' = line.id
    /\ ret' = line.text
    /\ line' = NoLine
    /\ rpc' = "console"
    /\ UNCHANGED <<ReaderFrame, data_safe, device_sleep, recordVars, returned,
                   pushVars>>

\* serial_console, lines 1359-1372: 'False' ends the thread, anything else
\* is printed and the loop calls listen_port again
R_Console ==
    /\ rpc = "console"
    /\ rpc' = IF ret = "False" THEN "done" ELSE "listen"
    /\ ret' = ""
    /\ evicted' = NoLine
    /\ seen' = NoSeen
    /\ error_count' = 0
    /\ attempts' = <<>>
    /\ waits' = 0
    /\ UNCHANGED <<ioVars,
                   connVars, breakVars, parseVars, framerVars, nlines,
                   snapVars, serial_data, data_safe, device_sleep,
                   recordVars, line, returned, last_pushed>>

(***************************************************************************)
(* parse_serial_data, run by the 'status' thread (update_status) and by    *)
(* the 'settings' thread (update_settings).                                *)
(***************************************************************************)
ParseFrame ==
    <<connVars, breakVars, rpc, line, ret, framerVars, retryVars, nlines,
      returned, last_pushed, pushVars, ioVars>>

\* where the caller goes on when parse_serial_data returns:
\* update_status lines 1540-1541, 1562-1564, 1585; update_settings line 224
Continue(t) ==
    CASE target[t] = "Settings" -> "idle"
      [] target[t] = "Version"  -> "gate"
      [] target[t] = HookState  -> "call_volts"
      [] target[t] = HookVolts  -> "call_event"
      [] target[t] = HookEvent  -> "chk_reboot"

\* parse_serial_data returns: the caller goes on and the locals are gone
Return(t) ==
    /\ ppc' = [ppc EXCEPT ![t] = Continue(t)]
    /\ target' = [target EXCEPT ![t] = ""]
    /\ idx' = [idx EXCEPT ![t] = 0]
    /\ pline' = [pline EXCEPT ![t] = NoLine]
    /\ temp' = [temp EXCEPT ![t] = <<>>]
    /\ kidx' = [kidx EXCEPT ![t] = 1]

\* line 494
P_CheckLen(t) ==
    /\ ppc[t] = "p_len"
    /\ IF Len(serial_data) > 0
       THEN /\ ppc' = [ppc EXCEPT ![t] = "p_flag"]
            /\ UNCHANGED <<target, idx, pline, temp, kidx>>
       ELSE Return(t)
    /\ UNCHANGED <<ParseFrame, serial_data, data_safe, device_sleep,
                   recordVars, snapVars>>

\* lines 496 and 609-613
P_CheckFlag(t) ==
    /\ ppc[t] = "p_flag"
    /\ IF data_safe
       THEN /\ ppc' = [ppc EXCEPT ![t] = "p_take"]
            /\ UNCHANGED <<target, idx, pline, temp, kidx>>
       ELSE Return(t)
    /\ UNCHANGED <<ParseFrame, serial_data, data_safe, device_sleep,
                   recordVars, snapVars>>

\* line 497, then the dispatch on target of lines 500, 524 and 551
P_Take(t) ==
    /\ ppc[t] = "p_take"
    /\ data_safe' = FALSE
    /\ idx' = [idx EXCEPT ![t] = 0]
    /\ ppc' = [ppc EXCEPT ![t] =
                  IF target[t] \in {"Settings", "Version"}
                  THEN "p_send" ELSE "p_scan"]
    /\ UNCHANGED <<ParseFrame, serial_data, device_sleep, recordVars, target,
                   pline, temp, kidx, snapVars>>

\* lines 501 and 525 with send_serial_command, lines 660-678: the command
\* is written when the connection is safe and the write does not fail;
\* then the settle time of lines 504 and 528
P_Send(t) ==
    /\ ppc[t] = "p_send"
    /\ \E wrote \in BOOLEAN :
           ppc' = [ppc EXCEPT ![t] =
                      IF serial_safe /\ wrote THEN "p_copy" ELSE "p_abort"]
    /\ UNCHANGED <<ParseFrame, serial_data, data_safe, device_sleep,
                   recordVars, target, idx, pline, temp, kidx, snapVars>>

\* lines 502-503 and 526-527
P_Abort(t) ==
    /\ ppc[t] = "p_abort"
    /\ data_safe' = TRUE
    /\ Return(t)
    /\ UNCHANGED <<ParseFrame, serial_data, device_sleep, recordVars,
                   snapVars>>

Ids(q) == {q[i].id : i \in 1..Len(q)}

\* lines 508 and 532: serial_data.copy()
P_Copy(t) ==
    /\ ppc[t] = "p_copy"
    /\ temp' = [temp EXCEPT ![t] = serial_data]
    /\ mark' = [mark EXCEPT ![t] = last_pushed]
    /\ snapped' = snapped \cup Ids(serial_data)
    /\ delivered_twice' = delivered_twice \cup (snapped \cap Ids(serial_data))
    /\ ppc' = [ppc EXCEPT ![t] = "p_clear"]
    /\ UNCHANGED <<ParseFrame, serial_data, data_safe, device_sleep,
                   recordVars, target, idx, pline, kidx>>

\* lines 509 and 533: serial_data.clear()
P_Clear(t) ==
    /\ ppc[t] = "p_clear"
    /\ serial_data' = <<>>
    /\ ppc' = [ppc EXCEPT ![t] = "p_release_ex"]
    /\ UNCHANGED <<ParseFrame, data_safe, device_sleep, recordVars, target,
                   idx, pline, temp, kidx, snapVars>>

\* lines 510 and 534
P_ReleaseEx(t) ==
    /\ ppc[t] = "p_release_ex"
    /\ data_safe' = TRUE
    /\ kidx' = [kidx EXCEPT ![t] = 1]
    /\ ppc' = [ppc EXCEPT ![t] = "p_keys"]
    /\ UNCHANGED <<ParseFrame, serial_data, device_sleep, recordVars, target,
                   idx, pline, temp, snapVars>>

\* s.replace('\t', '')
RECURSIVE RemoveTabs(_)
RemoveTabs(s) ==
    IF Len(s) = 0 THEN ""
    ELSE (IF SubSeq(s, 1, 1) = "\t" THEN "" ELSE SubSeq(s, 1, 1))
         \o RemoveTabs(Slice(s, 2, Len(s)))

\* lines 513-520 with a break after the assignment: the first line holding
\* the key decides
RECURSIVE SettingScan_First(_, _, _)
SettingScan_First(lines, key, val) ==
    IF lines = <<>> THEN [val |-> val, err |-> FALSE]
    ELSE LET l == Head(lines).text
         IN  IF Contains(RemoveTabs(l), key)
             THEN IF Contains(l, "=")
                  THEN [val |-> Lstrip(AfterFirst(l, "=")), err |-> FALSE]
                  ELSE [val |-> val, err |-> TRUE]
             ELSE SettingScan_First(Tail(lines), key, val)

\* lines 513-520, the inner loop for one key of current_settings: every
\* line holding the key assigns; a line without '=' raises IndexError
RECURSIVE SettingScan(_, _, _)
SettingScan(lines, key, val) ==
    IF lines = <<>> THEN [val |-> val, err |-> FALSE]
    ELSE LET l == Head(lines).text
         IN  IF Contains(RemoveTabs(l), key)
             THEN IF Contains(l, "=")
                  THEN SettingScan(Tail(lines), key, Lstrip(AfterFirst(l, "=")))
                  ELSE [val |-> val, err |-> TRUE]
             ELSE SettingScan(Tail(lines), key, val)

\* lines 540-543
InfoItem(l, hook) ==
    LET item == SplitSecond(l, hook)
    IN  IF Contains(item, " ") THEN BeforeFirst(item, " ") ELSE item

\* lines 537-547, the inner loop for one key of INFO_HOOKS
RECURSIVE InfoScan(_, _, _)
InfoScan(lines, key, val) ==
    IF lines = <<>> THEN [val |-> val, err |-> FALSE]
    ELSE LET l == Head(lines).text
         IN  IF Contains(l, INFO_HOOKS(key))
             THEN InfoScan(Tail(lines), key, InfoItem(l, INFO_HOOKS(key)))
             ELSE InfoScan(Tail(lines), key, val)

\* lines 512-521 and 536-548: one key of the outer loop
P_Key(t) ==
    /\ ppc[t] = "p_keys"
    /\ IF target[t] = "Settings"
       THEN IF kidx[t] > Len(SettingKeys)
            THEN /\ Return(t)
                 /\ UNCHANGED recordVars
            ELSE LET key == SettingKeys[kidx[t]]
                     r   == SettingScan(temp[t], key, current_settings[key])
                 IN  /\ current_settings' =
                            [current_settings EXCEPT ![key] = r.val]
                     /\ IF r.err
                        THEN Return(t)
                        ELSE /\ kidx' = [kidx EXCEPT ![t] = @ + 1]
                             /\ UNCHANGED <<ppc, target, idx, pline, temp>>
                     /\ UNCHANGED <<device_info, current_status>>
       ELSE IF kidx[t] > Len(InfoKeys)
            THEN /\ Return(t)
                 /\ UNCHANGED recordVars
            ELSE LET key == InfoKeys[kidx[t]]
                     r   == InfoScan(temp[t], key, device_info[key])
                 IN  /\ device_info' = [device_info EXCEPT ![key] = r.val]
                     /\ kidx' = [kidx EXCEPT ![t] = @ + 1]
                     /\ UNCHANGED <<ppc, target, idx, pline, temp,
                                    current_status, current_settings>>
    /\ UNCHANGED <<ParseFrame, serial_data, data_safe, device_sleep,
                   snapVars>>

(***************************************************************************)
(* parse_serial_data, the continuous scan of lines 551-607.                *)
(***************************************************************************)
\* where the loop body goes for the line just fetched: the tests of lines
\* 553, 557-558, 565-567, 582 and 600, which read locals only
ScanBranch(tg, text) ==
    IF Contains(text, tg)
    THEN CASE tg = HookVolts ->
                  IF Contains(text, "Batt") THEN "v_vin" ELSE "v_clear"
           [] tg = HookState ->
                  IF StateToken(text) \in VALID_STATES
                  THEN "st_state" ELSE "p_scan"
           [] tg = HookEvent -> "ev_event"
    ELSE IF text = Sentinel THEN "sl_state" ELSE "p_scan"

\* line 552: the iterator fetches the next line, or the loop ends
P_Scan(t) ==
    /\ ppc[t] = "p_scan"
    /\ IF idx[t] >= Len(serial_data)
       THEN /\ ppc' = [ppc EXCEPT ![t] = "p_release"]
            /\ UNCHANGED <<idx, pline>>
       ELSE /\ pline' = [pline EXCEPT ![t] = serial_data[idx[t] + 1]]
            /\ idx' = [idx EXCEPT ![t] = @ + 1]
            /\ ppc' = [ppc EXCEPT ![t] =
                          ScanBranch(target[t], serial_data[idx[t] + 1].text)]
    /\ UNCHANGED <<ParseFrame, serial_data, data_safe, device_sleep,
                   recordVars, target, temp, kidx, snapVars>>

ScanFrame == <<ParseFrame, target, idx, pline, temp, kidx, snapVars>>

\* line 559
P_VoltsVin(t) ==
    /\ ppc[t] = "v_vin"
    /\ current_status' =
           [current_status EXCEPT !.vin = MilliVolts(pline[t].text, "Vin")]
    /\ ppc' = [ppc EXCEPT ![t] = "v_batt"]
    /\ UNCHANGED <<ScanFrame, serial_data, data_safe, device_sleep,
                   device_info, current_settings>>

\* line 560
P_VoltsBatt(t) ==
    /\ ppc[t] = "v_batt"
    /\ current_status' =
           [current_status EXCEPT !.batt = MilliVolts(pline[t].text, "Batt")]
    /\ ppc' = [ppc EXCEPT ![t] = "v_clear"]
    /\ UNCHANGED <<ScanFrame, serial_data, data_safe, device_sleep,
                   device_info, current_settings>>

\* lines 561-562
P_VoltsClear(t) ==
    /\ ppc[t] = "v_clear"
    /\ serial_data' = <<>>
    /\ ppc' = [ppc EXCEPT ![t] = "p_release"]
    /\ UNCHANGED <<ScanFrame, data_safe, device_sleep, recordVars>>

\* lines 571-574 alone, without the test of lines 568-570 for the ignition
\* events
NewState_NoIgnition(token, event, asleep) ==
    IF token = "Sleeping" /\ ~asleep
    THEN "Stopped"
    ELSE token

\* lines 568-574: the state a valid token gives
NewState(token, event, asleep) ==
    IF event \in {"Ignition On", "Virtual Ignition On"} /\ token = "Moving"
    THEN event
    ELSE IF token = "Sleeping" /\ ~asleep
         THEN "Stopped"
         ELSE token

\* lines 566-577: the state assignment, then the test for 'Vin'
P_State(t) ==
    /\ ppc[t] = "st_state"
    /\ current_status' =
           [current_status EXCEPT !.state =
               NewState(StateToken(pline[t].text), current_status.event,
                        device_sleep)]
    /\ ppc' = [ppc EXCEPT ![t] =
                  IF Contains(pline[t].text, "Vin") THEN "st_vin" ELSE "p_scan"]
    /\ UNCHANGED <<ScanFrame, serial_data, data_safe, device_sleep,
                   device_info, current_settings>>

\* line 578
P_StateVin(t) ==
    /\ ppc[t] = "st_vin"
    /\ current_status' =
           [current_status EXCEPT !.vin = MilliVolts(pline[t].text, "Vin")]
    /\ ppc' = [ppc EXCEPT ![t] = "st_batt"]
    /\ UNCHANGED <<ScanFrame, serial_data, data_safe, device_sleep,
                   device_info, current_settings>>

\* line 579; without 'Batt' split()[1] raises IndexError: lines 589-591
P_StateBatt(t) ==
    /\ ppc[t] = "st_batt"
    /\ IF Contains(pline[t].text, "Batt")
       THEN /\ current_status' =
                   [current_status EXCEPT
                       !.batt = MilliVolts(pline[t].text, "Batt")]
            /\ ppc' = [ppc EXCEPT ![t] = "p_scan"]
       ELSE /\ ppc' = [ppc EXCEPT ![t] = "p_release"]
            /\ UNCHANGED current_status
    /\ UNCHANGED <<ScanFrame, serial_data, data_safe, device_sleep,
                   device_info, current_settings>>

\* line 583; an unknown code raises KeyError: lines 595-597
P_Event(t) ==
    /\ ppc[t] = "ev_event"
    /\ IF EventCode(pline[t].text) \in EventCodes
       THEN /\ current_status' =
                   [current_status EXCEPT
                       !.event = EVENTS(EventCode(pline[t].text))]
            /\ ppc' = [ppc EXCEPT ![t] = "ev_clear"]
       ELSE /\ ppc' = [ppc EXCEPT ![t] = "p_release"]
            /\ UNCHANGED current_status
    /\ UNCHANGED <<ScanFrame, serial_data, data_safe, device_sleep,
                   device_info, current_settings>>

\* lines 584-585
P_EventClear(t) ==
    /\ ppc[t] = "ev_clear"
    /\ serial_data' = <<>>
    /\ ppc' = [ppc EXCEPT ![t] = "p_release"]
    /\ UNCHANGED <<ScanFrame, data_safe, device_sleep, recordVars>>

\* line 601
P_SentinelState(t) ==
    /\ ppc[t] = "sl_state"
    /\ current_status' = [current_status EXCEPT !.state = "Sleeping"]
    /\ ppc' = [ppc EXCEPT ![t] = "sl_latch"]
    /\ UNCHANGED <<ScanFrame, serial_data, data_safe, device_sleep,
                   device_info, current_settings>>

\* line 602
P_SentinelLatch(t) ==
    /\ ppc[t] = "sl_latch"
    /\ device_sleep' = TRUE
    /\ ppc' = [ppc EXCEPT ![t] = "sl_clear"]
    /\ UNCHANGED <<ScanFrame, serial_data, data_safe, recordVars>>

\* lines 603-604
P_SentinelClear(t) ==
    /\ ppc[t] = "sl_clear"
    /\ serial_data' = <<>>
    /\ ppc' = [ppc EXCEPT ![t] = "p_release"]
    /\ UNCHANGED <<ScanFrame, data_safe, device_sleep, recordVars>>

\* lines 606-607
P_Release(t) ==
    /\ ppc[t] = "p_release"
    /\ data_safe' = TRUE
    /\ Return(t)
    /\ UNCHANGED <<ParseFrame, serial_data, device_sleep, recordVars,
                   snapVars>>

(***************************************************************************)
(* update_status, the loop of the 'status' thread, and wait_for_reboot.    *)
(***************************************************************************)
Call(t, tg) ==
    /\ target' = [target EXCEPT ![t] = tg]
    /\ ppc' = [ppc EXCEPT ![t] = "p_len"]
    /\ UNCHANGED <<ParseFrame, serial_data, data_safe, device_sleep,
                   recordVars, idx, pline, temp, kidx, snapVars>>

\* lines 1538-1540: device info is requested and its time gate is open
U_CallVersion ==
    /\ ppc["status"] = "loop"
    /\ Call("status", "Version")

\* lines 1559-1562: the 3-second gate is open
U_CallState ==
    /\ ppc["status"] \in {"loop", "gate"}
    /\ Call("status", HookState)

\* line 1563
U_CallVolts ==
    /\ ppc["status"] = "call_volts"
    /\ Call("status", HookVolts)

\* line 1564
U_CallEvent ==
    /\ ppc["status"] = "call_event"
    /\ Call("status", HookEvent)

\* line 1559: the 3-second gate is closed
U_SkipStatus ==
    /\ ppc["status"] \in {"loop", "gate"}
    /\ ppc' = [ppc EXCEPT !["status"] = "chk_reboot"]
    /\ UNCHANGED <<ScanFrame, serial_data, data_safe, device_sleep,
                   recordVars>>

\* line 1585
U_CheckReboot ==
    /\ ppc["status"] = "chk_reboot"
    /\ ppc' = [ppc EXCEPT !["status"] =
                  IF current_status.event = "Device Reboot"
                  THEN "w_take" ELSE "loop"]
    /\ UNCHANGED <<ScanFrame, serial_data, data_safe, device_sleep,
                   recordVars>>

\* wait_for_reboot, line 624
W_Take ==
    /\ ppc["status"] = "w_take"
    /\ data_safe' = FALSE
    /\ idx' = [idx EXCEPT !["status"] = 0]
    /\ ppc' = [ppc EXCEPT !["status"] = "w_scan"]
    /\ UNCHANGED <<ParseFrame, serial_data, device_sleep, recordVars, target,
                   pline, temp, kidx, snapVars>>

\* lines 626-633: one line of the for loop; past the last line the while
\* loop sleeps and starts the for loop again.  Whether 210 s have passed is
\* the clock's choice.
W_Scan ==
    /\ ppc["status"] = "w_scan"
    /\ IF idx["status"] >= Len(serial_data)
       THEN /\ idx' = [idx EXCEPT !["status"] = 0]
            /\ UNCHANGED ppc
       ELSE \E late \in BOOLEAN :
               IF late \/ Contains(serial_data[idx["status"] + 1].text,
                                   BootMarker)
               THEN /\ ppc' = [ppc EXCEPT !["status"] = "w_event"]
                    /\ UNCHANGED idx
               ELSE /\ idx' = [idx EXCEPT !["status"] = @ + 1]
                    /\ UNCHANGED ppc
    /\ UNCHANGED <<ParseFrame, serial_data, data_safe, device_sleep,
                   recordVars, target, pline, temp, kidx, snapVars>>

\* line 635
W_Event ==
    /\ ppc["status"] = "w_event"
    /\ current_status' = [current_status EXCEPT !.event = "Reboot Complete"]
    /\ ppc' = [ppc EXCEPT !["status"] = "w_main"]
    /\ UNCHANGED <<ScanFrame, serial_data, data_safe, device_sleep,
                   device_info, current_settings>>

\* line 636
W_Main ==
    /\ ppc["status"] = "w_main"
    /\ device_info' = [device_info EXCEPT !["main"] = ""]
    /\ ppc' = [ppc EXCEPT !["status"] = "w_imei"]
    /\ UNCHANGED <<ScanFrame, serial_data, data_safe, device_sleep,
                   current_status, current_settings>>

\* line 637
W_Imei ==
    /\ ppc["status"] = "w_imei"
    /\ device_info' = [device_info EXCEPT !["imei"] = ""]
    /\ ppc' = [ppc EXCEPT !["status"] = "w_clear"]
    /\ UNCHANGED <<ScanFrame, serial_data, data_safe, device_sleep,
                   current_status, current_settings>>

\* lines 635-640 without the serial_data.clear() of line 638
W_Clear_KeepsQueue ==
    /\ ppc["status"] = "w_clear"
    /\ ppc' = [ppc EXCEPT !["status"] = "w_release"]
    /\ UNCHANGED <<ScanFrame, serial_data, data_safe, device_sleep,
                   recordVars>>

\* line 638
W_Clear ==
    /\ ppc["status"] = "w_clear"
    /\ serial_data' = <<>>
    /\ ppc' = [ppc EXCEPT !["status"] = "w_release"]
    /\ UNCHANGED <<ScanFrame, data_safe, device_sleep, recordVars>>

\* lines 639-640
W_Release ==
    /\ ppc["status"] = "w_release"
    /\ data_safe' = TRUE
    /\ idx' = [idx EXCEPT !["status"] = 0]
    /\ ppc' = [ppc EXCEPT !["status"] = "clear_info"]
    /\ UNCHANGED <<ParseFrame, serial_data, device_sleep, recordVars, target,
                   pline, temp, kidx, snapVars>>

\* update_status lines 1589-1590 with clear_info, lines 685-686
U_ClearInfo ==
    /\ ppc["status"] = "clear_info"
    /\ device_info' = [k \in DOMAIN device_info |-> ""]
    /\ ppc' = [ppc EXCEPT !["status"] = "loop"]
    /\ UNCHANGED <<ScanFrame, serial_data, data_safe, device_sleep,
                   current_status, current_settings>>

\* update_settings, lines 217-224: read mode, a connection exists
T_CallSettings ==
    /\ ppc["settings"] = "idle"
    /\ serial_connection.handle
    /\ Call("settings", "Settings")

(***************************************************************************)
(* Initial states.                                                         *)
(***************************************************************************)
Range(f) == {f[i] : i \in DOMAIN f}

\* the module globals as lines 107-266 set them, after serial_console has
\* opened the port (open_port, lines 294-296) and the 'status' thread runs
InitGlobals ==
    /\ serial_connection = [handle |-> TRUE, port |-> "COM3", is_open |-> TRUE]
    /\ working_com_port = "COM3"
    /\ serial_safe = TRUE
    /\ device_sleep = FALSE
    /\ line_break_rx = <<1, 0, 0>>
    /\ line_break_tx = <<1, 0, 0>>
    /\ device_info = [k \in Range(InfoKeys) |-> ""]
    /\ current_settings = [k \in Range(SettingKeys) |-> ""]

InitStatus ==
    [state |-> "Reading State...", vin |-> "Reading...",
     batt |-> "Reading...", event |-> "Waiting for\nEvent Status..."]

InitThreads ==
    /\ rpc = "listen"
    /\ line = NoLine
    /\ ret = ""
    /\ target = [t \in ParseThreads |-> ""]
    /\ idx = [t \in ParseThreads |-> 0]
    /\ pline = [t \in ParseThreads |-> NoLine]
    /\ temp = [t \in ParseThreads |-> <<>>]
    /\ kidx = [t \in ParseThreads |-> 1]

\* no call of a port function is in progress; last_open is the port of
\* the last open_port that made a connection
NoCall ==
    [pc |-> "idle", op |-> "", port |-> None, res |-> "", closed |-> "",
     opened |-> "", temp_lb |-> <<>>, pre |-> <<>>, last_open |-> None]

\* the threads that call send_serial_command
Senders == ParseThreads \cup {"window"}

\* no call of send_serial_command: pc is the position in the call, nl its
\* local nl_char, res what the call returned or raised
NoSend == [pc |-> "idle", cmd |-> "", nl |-> "", res |-> ""]

\* the threads that call start_console_thread: the thread of the window
\* (menu, exit_puib) and the 'puibtool' thread (run_puibtool)
Callers == {"gui", "puibtool"}

\* how many Thread objects named 'console' a behaviour creates
MaxConsoleThreads == 3

ConsoleIds == 1 .. MaxConsoleThreads

\* MainWindow.__init__ (lines 1043-1100) and the attributes of
\* PUIbtoolWindow: console_thread is the id of the Thread object, 0 for None
NoWindow ==
    [halt_threads_flag |-> FALSE, cancel_connect_flag |-> FALSE,
     run_puibtool_flag |-> FALSE, extend_window_flag |-> FALSE,
     console_thread |-> 0, puib_window |-> FALSE, port_closed |-> FALSE,
     port_name |-> "None", exiting |-> FALSE]

\* a Thread object that does not exist yet: port is the argument of
\* serial_console, ser the local of open_port
NoThread ==
    [pc |-> "none", port |-> "None",
     ser |-> [handle |-> FALSE, port |-> "None", is_open |-> FALSE]]

\* no call of start_console_thread: joins is the Thread read at line 1285
NoStart == [pc |-> "idle", port |-> "None", joins |-> 0, from |-> "", res |-> ""]

NoThreads ==
    [console |-> [i \in ConsoleIds |-> NoThread],
     caller |-> [c \in Callers |-> NoStart],
     status |-> "none", made |-> 0]

\* no call in progress and nothing read, pushed or copied so far
InitCalls ==
    /\ api = [NoCall EXCEPT !.last_open = working_com_port]
    /\ sent = [t \in Senders |-> NoSend]
    /\ reads = ""
    /\ timeouts = 0
    /\ error_count = 0
    /\ attempts = <<>>
    /\ waits = 0
    /\ nlines = 0
    /\ last_pushed = 0
    /\ mark = [t \in ParseThreads |-> 0]
    /\ snapped = {}
    /\ delivered_twice = {}
    /\ evicted = NoLine
    /\ seen = NoSeen

InitHistory ==
    /\ InitCalls
    /\ win = NoWindow
    /\ thr = NoThreads

\* n device lines without any hook, queued before the behaviour starts;
\* their ids are -n+1 .. 0
Backlog(n) ==
    [i \in 1..n |-> [id |-> i - n, text |-> IF i % 2 = 1 THEN "tick" ELSE "tock"]]

(***************************************************************************)
(* SpecQueue: the reader and the status poller on a long queue.  It starts *)
(* with a backlog of hook-free lines, either with both threads between two *)
(* calls, or in a reboot wait (the reader has queued lines without limit   *)
(* since the event scan found the reboot event).                           *)
(***************************************************************************)
QueueInputs == {"tick", ">< >< >< DEVICE_REBOOT"}

InitQueue ==
    /\ InitGlobals
    /\ InitThreads
    /\ InitHistory
    /\ returned = <<>>
    /\ \/ /\ \E n \in {FillPop, FillClear} : serial_data = Backlog(n)
          /\ data_safe = TRUE
          /\ current_status = InitStatus
          /\ ppc = [t \in ParseThreads |->
                       IF t = "status" THEN "loop" ELSE "idle"]
       \/ /\ serial_data = Backlog(FillClear)
          /\ data_safe = FALSE
          /\ current_status = [InitStatus EXCEPT !.event = "Device Reboot"]
          /\ ppc = [t \in ParseThreads |->
                       IF t = "status" THEN "w_scan" ELSE "idle"]

Reader(inputs, max) ==
    \/ R_Line(inputs, max)
    \/ R_CheckEvent
    \/ R_AppendReboot
    \/ R_CheckClear
    \/ R_CheckPop
    \/ R_CheckSleep
    \/ R_Append
    \/ R_Console

ReaderLimits ==
    \/ R_OvfWait
    \/ R_OvfTake
    \/ R_OvfClear
    \/ R_OvfRelease
    \/ R_PopFlag
    \/ R_PopTake
    \/ R_Pop
    \/ R_PopRelease

RebootWait ==
    \/ W_Take
    \/ W_Scan
    \/ W_Event
    \/ W_Main
    \/ W_Imei
    \/ W_Clear
    \/ W_Release
    \/ U_ClearInfo

NextQueue ==
    \/ Reader(QueueInputs, MaxQueueLines)
    \/ ReaderLimits
    \/ U_CallState
    \/ U_CallVolts
    \/ U_CallEvent
    \/ U_SkipStatus
    \/ U_CheckReboot
    \/ P_CheckLen("status")
    \/ P_CheckFlag("status")
    \/ P_Take("status")
    \/ P_Scan("status")
    \/ P_Event("status")
    \/ P_EventClear("status")
    \/ P_Release("status")
    \/ RebootWait

SpecQueue == InitQueue /\ [][NextQueue]_vars

(***************************************************************************)
(* Claims about the queue limits (SpecQueue).                              *)
(***************************************************************************)
\* positions of wait_for_reboot between its 'Reboot Complete' assignment
\* (line 635) and its serial_data.clear() (line 638)
RebootTail == {"w_main", "w_imei", "w_clear"}

\* the reader has queued lines without limit since the event scan set the
\* last event to 'Device Reboot', and wait_for_reboot has not cleared them
InRebootWindow ==
    \/ current_status.event = "Device Reboot"
    \/ ppc["status"] \in RebootTail

C1_RebootGrowth ==
    /\ InRebootWindow
    /\ Len(serial_data) > QueueClearLen + 1

\* positions of a push after its eviction section (lines 469-473)
PastEviction ==
    {"pop_release", "chk_sleep", "set_stopped", "clear_latch", "append",
     "console"}

PopOnEmptyQueue == rpc = "crashed"

(***************************************************************************)
(* SpecFramer: the byte loop of listen_port, one read() per step.  The     *)
(* reader runs alone; the device sends any bytes, reads may time out.      *)
(***************************************************************************)
Bytes == {"a", "b", "\n", "\r"}

\* the receive policies set_line_break installs (change_newline_break)
Policies == {<<1, 0, 0>>, <<0, 1, 0>>, <<0, 0, 1>>}

\* the loop body for one read without the pending-CR flag: a CR under the
\* CRLF policy is dropped and nothing is remembered
FrameStep_NoPending(rx, acc, c) ==
    IF c = "\n"
    THEN IF rx[1] # 0 /\ acc # ""
         THEN [brk |-> TRUE, rx |-> rx, acc |-> acc]
         ELSE IF rx[3] = 2 /\ acc # ""
              THEN [brk |-> TRUE, rx |-> [rx EXCEPT ![3] = 1], acc |-> acc]
              ELSE [brk |-> FALSE, rx |-> rx, acc |-> acc]
    ELSE IF c = "\r"
         THEN IF rx[2] # 0 /\ acc # ""
              THEN [brk |-> TRUE, rx |-> rx, acc |-> acc]
              ELSE [brk |-> FALSE, rx |-> rx, acc |-> acc]
         ELSE [brk |-> FALSE, rx |-> rx, acc |-> acc \o c]

\* the loop body for one read without the tests line != '': a terminator
\* ends the line even when nothing has been accumulated
FrameStep_EmptyLines(rx, acc, c) ==
    IF c = "\n"
    THEN IF rx[1] # 0
         THEN [brk |-> TRUE, rx |-> rx, acc |-> acc]
         ELSE IF rx[3] = 2
              THEN [brk |-> TRUE, rx |-> [rx EXCEPT ![3] = 1], acc |-> acc]
              ELSE [brk |-> FALSE, rx |-> rx, acc |-> acc]
    ELSE IF c = "\r"
         THEN IF rx[2] # 0
              THEN [brk |-> TRUE, rx |-> rx, acc |-> acc]
              ELSE IF rx[3] # 0
                   THEN [brk |-> FALSE, rx |-> [rx EXCEPT ![3] = 2],
                         acc |-> acc]
                   ELSE [brk |-> FALSE, rx |-> rx, acc |-> acc]
         ELSE [brk |-> FALSE, rx |-> rx, acc |-> acc \o c]

\* lines 393-418, the loop body for the character c just read (c = "" for
\* an empty read): whether the loop breaks, line_break_rx and line after it
FrameStep(rx, acc, c) ==
    IF c = "\n"
    THEN IF rx[1] # 0 /\ acc # ""
         THEN [brk |-> TRUE, rx |-> rx, acc |-> acc]
         ELSE IF rx[3] = 2 /\ acc # ""
              THEN [brk |-> TRUE, rx |-> [rx EXCEPT ![3] = 1], acc |-> acc]
              ELSE [brk |-> FALSE, rx |-> rx, acc |-> acc]
    ELSE IF c = "\r"
         THEN IF rx[2] # 0 /\ acc # ""
              THEN [brk |-> TRUE, rx |-> rx, acc |-> acc]
              ELSE IF rx[3] # 0 /\ acc # ""
                   THEN [brk |-> FALSE, rx |-> [rx EXCEPT ![3] = 2],
                         acc |-> acc]
                   ELSE [brk |-> FALSE, rx |-> rx, acc |-> acc]
         ELSE [brk |-> FALSE, rx |-> rx, acc |-> acc \o c]

\* lines 386-424: one iteration of the loop.  read() returns a byte or, on
\* its 3 s timeout, nothing; whether 10 s have passed since the call began
\* is the clock's choice.
F_ReadOf(choices, max) ==
    /\ rpc = "listen"
    /\ serial_safe
    /\ Len(reads) < max
    /\ \E c \in choices, late \in BOOLEAN :
          LET r == FrameStep(line_break_rx, line.text, c)
              expired == ~r.brk /\ late /\ timeouts < MaxTimeouts
              done == r.brk \/ expired
              text == IF r.brk THEN r.acc ELSE Sentinel
          IN  /\ reads' = reads \o (IF c = "" THEN "_" ELSE c)
              /\ line_break_rx' = r.rx
              /\ timeouts' = timeouts + (IF expired THEN 1 ELSE 0)
              /\ IF done
                 THEN /\ line' = [id |-> nlines + 1, text |-> text]
                      /\ nlines' = nlines + 1
                      /\ returned' = Append(returned, text)
                      /\ rpc' = "chk_event"
                 ELSE /\ line' = [id |-> 0, text |-> r.acc]
                      /\ UNCHANGED <<nlines, returned, rpc>>
    /\ UNCHANGED <<ioVars,
                   connVars, serial_data, data_safe, device_sleep,
                   line_break_tx, recordVars, ret, parseVars, retryVars,
                   last_pushed, snapVars, pushVars>>

\* the device sends any byte, or nothing within the read timeout
F_Read == F_ReadOf(Bytes \cup {""}, MaxStream)

InitFramer ==
    /\ serial_connection = [handle |-> TRUE, port |-> "COM3", is_open |-> TRUE]
    /\ working_com_port = "COM3"
    /\ serial_safe = TRUE
    /\ device_sleep = FALSE
    /\ line_break_rx \in Policies
    /\ line_break_tx = line_break_rx
    /\ device_info = [k \in Range(InfoKeys) |-> ""]
    /\ current_settings = [k \in Range(SettingKeys) |-> ""]
    /\ current_status = InitStatus
    /\ serial_data = <<>>
    /\ data_safe = TRUE
    /\ ppc = [t \in ParseThreads |-> "idle"]
    /\ returned = <<>>
    /\ InitThreads
    /\ InitHistory

NextFramer ==
    \/ F_Read
    \/ R_CheckEvent
    \/ R_CheckClear
    \/ R_CheckPop
    \/ R_CheckSleep
    \/ R_Append
    \/ R_Console

SpecFramer == InitFramer /\ [][NextFramer]_vars

(***************************************************************************)
(* Claims about the framer (SpecFramer).                                   *)
(***************************************************************************)
\* the bytes read so far, without the empty reads
RECURSIVE Consumed(_)
Consumed(r) ==
    IF Len(r) = 0 THEN ""
    ELSE (IF SubSeq(r, 1, 1) = "_" THEN "" ELSE SubSeq(r, 1, 1))
         \o Consumed(Slice(r, 2, Len(r)))

\* the terminator of a receive policy
Terminator(rx) ==
    IF rx[1] # 0 THEN "\n" ELSE IF rx[2] # 0 THEN "\r" ELSE "\r\n"

\* s.split(sep)
RECURSIVE Split(_, _)
Split(s, sep) ==
    IF Contains(s, sep)
    THEN <<BeforeFirst(s, sep)>> \o Split(AfterFirst(s, sep), sep)
    ELSE <<s>>

\* the segments of s that a terminator ends, in order
Terminated(s, sep) ==
    LET parts == Split(s, sep) IN SubSeq(parts, 1, Len(parts) - 1)

NonEmpty(parts) == SelectSeq(parts, LAMBDA x : x # "")

\* the only terminator bytes of s are those of the policy: no CR under LF,
\* no LF under CR, CR and LF only as the pair CR LF under CRLF (a CR at the
\* very end is a pair whose LF has not been read yet)
OnlyTerminatorsOf(rx, s) ==
    IF rx[1] # 0 THEN ~Contains(s, "\r")
    ELSE IF rx[2] # 0 THEN ~Contains(s, "\n")
    ELSE \A i \in 1..Len(s) :
            /\ SubSeq(s, i, i) = "\n" => (i > 1 /\ SubSeq(s, i - 1, i - 1) = "\r")
            /\ SubSeq(s, i, i) = "\r" =>
                   (i = Len(s) \/ SubSeq(s, i + 1, i + 1) = "\n")

\* C4 as stated: the lines returned are the segments the terminator of the
\* policy delimits, in order, terminators stripped
C4_AllSegments ==
    (timeouts = 0 /\ OnlyTerminatorsOf(line_break_rx, Consumed(reads)))
        => returned = Terminated(Consumed(reads), Terminator(line_break_rx))

\* C4, amended: the lines returned are the non-empty segments the terminator
\* delimits, in order, terminators stripped; an empty segment (a terminator
\* at the start or right after another) returns no line
C4_NonEmptySegments ==
    (timeouts = 0 /\ OnlyTerminatorsOf(line_break_rx, Consumed(reads)))
        => returned =
               NonEmpty(Terminated(Consumed(reads), Terminator(line_break_rx)))

\* two lines have been returned around an empty segment
C4_Witness ==
    /\ timeouts = 0
    /\ OnlyTerminatorsOf(line_break_rx, Consumed(reads))
    /\ Len(Terminated(Consumed(reads), Terminator(line_break_rx))) = 3
    /\ returned = <<"a", "b">>

\* the CR LF pairs of s that end a non-empty segment
PairsAfterData(s) == Len(NonEmpty(Terminated(s, "\r\n")))

\* CR and LF occur in r only as CR, any number of empty reads, LF
RECURSIVE SplitPairsOnly(_, _)
SplitPairsOnly(r, pending) ==
    IF Len(r) = 0 THEN TRUE
    ELSE LET c == SubSeq(r, 1, 1)
             rest == Slice(r, 2, Len(r))
         IN  IF c = "\r" THEN ~pending /\ SplitPairsOnly(rest, TRUE)
             ELSE IF c = "\n" THEN pending /\ SplitPairsOnly(rest, FALSE)
             ELSE IF c = "_" THEN SplitPairsOnly(rest, pending)
             ELSE ~pending /\ SplitPairsOnly(rest, FALSE)

R_ReadFail ==
    /\ rpc = "listen"
    /\ serial_safe
    /\ serial_connection.handle
    /\ serial_safe' = FALSE
    /\ error_count' = 0
    /\ attempts' = <<>>
    /\ waits' = 0
    /\ line' = NoLine
    /\ rpc' = "reconnect"
    /\ UNCHANGED <<ioVars,
                   serial_connection, working_com_port, serial_data, data_safe,
                   device_sleep, breakVars, recordVars, ret, parseVars,
                   framerVars, nlines, returned, last_pushed, snapVars,
                   pushVars>>

\* lines 387-389 while serial_connection is None: None has no read(), and
\* the AttributeError is not caught by the handler of line 427, so it
\* leaves listen_port and serial_console and the 'console' thread ends
R_ReadNone ==
    /\ rpc = "listen"
    /\ serial_safe
    /\ ~serial_connection.handle
    /\ rpc' = "raised"
    /\ line' = NoLine
    /\ UNCHANGED <<ioVars,
                   connVars, serial_data, data_safe, device_sleep, breakVars,
                   recordVars, ret, parseVars, framerVars, retryVars, nlines,
                   returned, last_pushed, snapVars, pushVars>>

\* line 433 and reconnect(), lines 356-371: the Serial object exists, so
\* it is closed and opened again; the call is True when the port is then
\* open, False when it is not or when open() raises
R_Reconnect ==
    /\ rpc = "reconnect"
    /\ serial_connection.handle
    /\ \E ok \in BOOLEAN :
          /\ serial_connection' = [serial_connection EXCEPT !.is_open = ok]
          /\ attempts' = Append(attempts, ok)
          /\ rpc' = IF ok THEN "reconnected" ELSE "retry"
    /\ UNCHANGED <<ioVars,
                   working_com_port, serial_safe, serial_data, data_safe,
                   device_sleep, breakVars, recordVars, line, ret, error_count,
                   waits, parseVars, framerVars, nlines, returned,
                   last_pushed, snapVars, pushVars>>

\* lines 434-439 without the sleep of line 439
R_Retry_NoSleep ==
    /\ rpc = "retry"
    /\ IF error_count = MaxRetries
       THEN /\ ret' = "False"
            /\ rpc' = "console"
            /\ UNCHANGED <<error_count, waits>>
       ELSE /\ error_count' = error_count + 1
            /\ rpc' = "reconnect"
            /\ UNCHANGED <<ret, waits>>
    /\ UNCHANGED <<ioVars,
                   connVars, serial_data, data_safe, device_sleep, breakVars,
                   recordVars, line, attempts, parseVars, framerVars, nlines,
                   returned, last_pushed, snapVars, pushVars>>

\* lines 434-439, the body of the loop after a failed reconnect(): give up
\* with False when error_count is 5, otherwise count, sleep 1 s and retry;
\* serial_console formats the value returned, so False arrives as 'False'
R_Retry ==
    /\ rpc = "retry"
    /\ IF error_count = MaxRetries
       THEN /\ ret' = "False"
            /\ rpc' = "console"
            /\ UNCHANGED <<error_count, waits>>
       ELSE /\ error_count' = error_count + 1
            /\ waits' = waits + 1
            /\ rpc' = "reconnect"
            /\ UNCHANGED ret
    /\ UNCHANGED <<ioVars,
                   connVars, serial_data, data_safe, device_sleep, breakVars,
                   recordVars, line, attempts, parseVars, framerVars, nlines,
                   returned, last_pushed, snapVars, pushVars>>

\* lines 442-444
R_Reconnected ==
    /\ rpc = "reconnected"
    /\ serial_safe' = TRUE
    /\ ret' = "Reconnected to " \o working_com_port \o ".\n"
    /\ rpc' = "console"
    /\ UNCHANGED <<ioVars,
                   serial_connection, working_com_port, serial_data, data_safe,
                   device_sleep, breakVars, recordVars, line, retryVars,
                   parseVars, framerVars, nlines, returned, last_pushed,
                   snapVars, pushVars>>

RetryInputs == {"tick"}

InitRetry ==
    /\ InitGlobals
    /\ current_status = InitStatus
    /\ serial_data = <<>>
    /\ data_safe = TRUE
    /\ ppc = [t \in ParseThreads |-> "idle"]
    /\ returned = <<>>
    /\ InitThreads
    /\ InitHistory

NextRetry ==
    \/ R_Line(RetryInputs, MaxLines)
    \/ R_ReadFail
    \/ R_Reconnect
    \/ R_Retry
    \/ R_Reconnected
    \/ R_CheckEvent
    \/ R_CheckClear
    \/ R_CheckPop
    \/ R_CheckSleep
    \/ R_Append
    \/ R_Console

SpecRetry == InitRetry /\ [][NextRetry]_vars

(***************************************************************************)
(* Claims about the reconnect loop (SpecRetry).                            *)
(***************************************************************************)
FourFailuresThenSuccess == <<FALSE, FALSE, FALSE, FALSE, TRUE>>

\* C7: when the first 4 reconnect() calls after a read failure fail and
\* the 5th succeeds, no further call is made, listen_port returns the
\* reconnection message after exactly 4 one-second waits, and serial_safe
\* is true again
C7_FifthAttemptSucceeds ==
    (Len(attempts) >= 5 /\ SubSeq(attempts, 1, 5) = FourFailuresThenSuccess)
        => /\ Len(attempts) = 5
           /\ waits = 4
           /\ rpc \in {"reconnected", "console"}
           /\ rpc = "console" =>
                 /\ ret = "Reconnected to COM3.\n"
                 /\ serial_safe

\* listen_port has returned from a reconnection that took 5 attempts
C7_Witness ==
    /\ rpc = "console"
    /\ attempts = FourFailuresThenSuccess
    /\ waits = 4
    /\ serial_safe
    /\ ret = "Reconnected to COM3.\n"

\* C8 as stated: after a read failure listen_port calls reconnect() at
\* most 5 times; when the first 5 calls have failed it returns False
\* without another call, and serial_console then ends
C8_AtMost5Attempts ==
    /\ Len(attempts) <= MaxRetries
    /\ (Len(attempts) = MaxRetries /\ ~attempts[MaxRetries]) =>
           rpc \in {"retry", "console"}

\* what the loop does: the 6th call is made after 5 failures; False is
\* returned only when that one fails too
C8_SixthAttempt ==
    /\ Len(attempts) = MaxRetries + 1
    /\ \A i \in 1..MaxRetries : ~attempts[i]

\* listen_port has returned False and serial_console has ended, after 6
\* failed calls of reconnect()
C8_FatalAfterSix ==
    /\ rpc = "done"
    /\ ~serial_safe

(***************************************************************************)
(* SpecSnapshot: the reader, the 'status' thread requesting device info    *)
(* ('Version') and the 'settings' thread requesting the settings, on a     *)
(* short queue.                                                            *)
(***************************************************************************)
SnapshotInputs == {"tick"}

\* the push of listen_port outside the reboot window, lines 451-481, and
\* the return to serial_console
ReaderPush ==
    \/ R_CheckEvent
    \/ R_CheckClear
    \/ R_CheckPop
    \/ R_CheckSleep
    \/ R_Append
    \/ R_Console

\* parse_serial_data('Settings') and parse_serial_data('Version')
Extract(t) ==
    \/ P_CheckLen(t)
    \/ P_CheckFlag(t)
    \/ P_Take(t)
    \/ P_Send(t)
    \/ P_Abort(t)
    \/ P_Copy(t)
    \/ P_Clear(t)
    \/ P_ReleaseEx(t)
    \/ P_Key(t)

InitSnapshot ==
    /\ InitGlobals
    /\ current_status = InitStatus
    /\ serial_data = <<>>
    /\ data_safe = TRUE
    /\ ppc = [t \in ParseThreads |-> IF t = "status" THEN "loop" ELSE "idle"]
    /\ returned = <<>>
    /\ InitThreads
    /\ InitHistory

NextSnapshot ==
    \/ R_Line(SnapshotInputs, MaxLines)
    \/ ReaderPush
    \/ U_CallVersion
    \/ U_SkipStatus
    \/ U_CheckReboot
    \/ T_CallSettings
    \/ \E t \in ParseThreads : Extract(t)

SpecSnapshot == InitSnapshot /\ [][NextSnapshot]_vars

(***************************************************************************)
(* Claims about snapshot-and-clear (SpecSnapshot).                         *)
(***************************************************************************)
PastClear == {"p_release_ex", "p_keys"}

\* the first half of C6: once an invocation has cleared the queue, no line
\* pushed before its snapshot is in the queue
C6_NoOldLineAfterClear ==
    \A t \in ParseThreads :
        ppc[t] \in PastClear =>
            \A i \in 1..Len(serial_data) : serial_data[i].id > mark[t]

\* C6 as stated: snapshot-and-clear is atomic for the pushes of the reader:
\* no line pushed before a snapshot is in the queue after its clear, and
\* no line is in the snapshots of two invocations
C6_SnapshotAtomic ==
    /\ C6_NoOldLineAfterClear
    /\ delivered_twice = {}

\* two invocations are between their snapshot and their clear, holding the
\* same lines
C6_BothInFlight ==
    /\ ppc["status"] = "p_clear"
    /\ ppc["settings"] = "p_clear"
    /\ temp["status"] = temp["settings"]
    /\ temp["status"] # <<>>

(***************************************************************************)
(* SpecStatus: the reader and the 'status' thread polling state, voltage   *)
(* and event on a short queue, outside any reboot.                         *)
(***************************************************************************)
\* 20 characters, the state hook among them, before the state token
StatePrefix == "[gps] sats:07 state="

StatusInputs ==
    {Sentinel, "tick", "v1.2",
     StatePrefix \o "Moving", StatePrefix \o "Sleeping",
     StatePrefix \o "Bogus",
     HookEvent \o " EVENT_IGNITION_ON"}

InitStatusPoll ==
    /\ InitGlobals
    /\ current_status = InitStatus
    /\ serial_data = <<>>
    /\ data_safe = TRUE
    /\ ppc = [t \in ParseThreads |-> IF t = "status" THEN "loop" ELSE "idle"]
    /\ returned = <<>>
    /\ InitThreads
    /\ InitHistory

NextStatus ==
    \/ R_Line(StatusInputs, MaxLines)
    \/ ReaderPush
    \/ R_SetStopped
    \/ R_ClearLatch
    \/ U_CallState
    \/ U_CallVolts
    \/ U_CallEvent
    \/ U_SkipStatus
    \/ U_CheckReboot
    \/ P_CheckLen("status")
    \/ P_CheckFlag("status")
    \/ P_Take("status")
    \/ P_Scan("status")
    \/ P_State("status")
    \/ P_Event("status")
    \/ P_EventClear("status")
    \/ P_SentinelState("status")
    \/ P_SentinelLatch("status")
    \/ P_SentinelClear("status")
    \/ P_Release("status")

SpecStatus == InitStatusPoll /\ [][NextStatus]_vars

(***************************************************************************)
(* Claims about the state scan and the sleep latch (SpecStatus).           *)
(***************************************************************************)
\* the scan of the 'status' thread fetches a line in this step
Fetches(tg) ==
    /\ ppc["status"] = "p_scan"
    /\ target["status"] = tg
    /\ idx'["status"] = idx["status"] + 1

\* the state assignment of the scan runs in this step
AssignsState ==
    /\ ppc["status"] = "st_state"
    /\ ppc'["status"] # "st_state"

\* C9: for a state-hook line with a valid token the state becomes the last
\* event when that is 'Ignition On' or 'Virtual Ignition On' and the token
\* is 'Moving', 'Stopped' when the token is 'Sleeping' and the sleep latch
\* is unset, and the token otherwise; a state-hook line with a token
\* outside the valid set leaves the state unchanged and the scan goes on
C9_StateTieBreak ==
    [][/\ AssignsState =>
            LET token == StateToken(pline["status"].text)
            IN  /\ token \in VALID_STATES
                /\ (current_status.event \in
                        {"Ignition On", "Virtual Ignition On"}
                    /\ token = "Moving")
                       => current_status'.state = current_status.event
                /\ (token = "Sleeping" /\ ~device_sleep)
                       => current_status'.state = "Stopped"
                /\ (/\ ~(current_status.event \in
                            {"Ignition On", "Virtual Ignition On"}
                         /\ token = "Moving")
                    /\ ~(token = "Sleeping" /\ ~device_sleep))
                       => current_status'.state = token
       /\ (/\ Fetches(HookState)
           /\ Contains(pline'["status"].text, HookState))
              => IF StateToken(pline'["status"].text) \in VALID_STATES
                 THEN ppc'["status"] = "st_state"
                 ELSE /\ ppc'["status"] = "p_scan"
                      /\ current_status' = current_status
      ]_vars

\* the tie-break has given the state the name of the ignition event
C9_Witness ==
    /\ current_status.event = "Ignition On"
    /\ current_status.state = "Ignition On"
    /\ ppc["status"] = "p_scan"
    /\ pline["status"].text = StatePrefix \o "Moving"

\* a state-hook line with an invalid token has been scanned
C9_InvalidTokenScanned ==
    /\ ppc["status"] = "p_scan"
    /\ target["status"] = HookState
    /\ pline["status"].text = StatePrefix \o "Bogus"

\* what a scan does with the sentinel, and what the reader does once it
\* has decided to end the sleep
LatchSteps ==
    /\ (\E tg \in STATUS_HOOKS : Fetches(tg) /\ pline'["status"].text = Sentinel)
           => ppc'["status"] = "sl_state"
    /\ (ppc["status"] = "sl_state" /\ ppc'["status"] = "sl_latch")
           => current_status'.state = "Sleeping"
    /\ (ppc["status"] = "sl_latch" /\ ppc'["status"] = "sl_clear")
           => device_sleep'
    /\ (rpc = "set_stopped" /\ rpc' = "clear_latch")
           => current_status'.state = "Stopped"
    /\ (rpc = "clear_latch" /\ rpc' = "append")
           => ~device_sleep'

\* listen_port tests the latch for the line it is pushing in this step
TestsLatch ==
    /\ rpc = "chk_sleep"
    /\ rpc' # "chk_sleep"

\* C10 as stated: a scan that reaches the sentinel sets the state to
\* 'Sleeping' and sets the latch; with the latch set, the push of any
\* non-sentinel line sets the state to 'Stopped' and clears the latch
C10_AnyLineEndsSleep ==
    [][/\ LatchSteps
       /\ (TestsLatch /\ device_sleep /\ line.text # Sentinel)
              => rpc' = "set_stopped"
      ]_vars

\* C10, amended: a scan that reaches the sentinel sets the state to
\* 'Sleeping' and sets the latch; with the latch set, the push of a line
\* sets the state to 'Stopped' and clears the latch exactly when the line
\* contains no '.'; otherwise the push changes neither
C10_DotlessLineEndsSleep ==
    [][/\ LatchSteps
       /\ (TestsLatch /\ device_sleep)
              => IF Contains(line.text, ".")
                 THEN rpc' = "append"
                 ELSE rpc' = "set_stopped"
       /\ (TestsLatch /\ ~device_sleep) => rpc' = "append"
      ]_vars

\* the latch was set when a line without '.' was pushed: the state is
\* 'Stopped' and the latch is clear
C10_Witness ==
    /\ rpc = "append"
    /\ seen.latch = "yes"
    /\ line.text = "tick"
    /\ ~device_sleep
    /\ current_status.state = "Stopped"

\* the latch was set when a non-sentinel line with a '.' was pushed: the
\* latch is still set and the state is still 'Sleeping'
C10_DottedLineKeepsSleep ==
    /\ rpc = "append"
    /\ seen.latch = "yes"
    /\ line.text = "v1.2"
    /\ device_sleep
    /\ current_status.state = "Sleeping"

(***************************************************************************)
(* SpecVolts: the reader framing a scripted byte stream under the LF       *)
(* policy, and the 'status' thread polling state, voltage and event.       *)
(***************************************************************************)
\* what the device sends in one behaviour
VoltsScripts == {"Vin 1200 Batt 900\n", "x\nBatt 9 Vin 12\nVin 5\n"}

\* the length of the longest script
ScriptLen(scripts) ==
    CHOOSE n \in {Len(s) : s \in scripts} : \A s \in scripts : Len(s) <= n

IsPrefix(p, s) == Len(p) <= Len(s) /\ SubSeq(s, 1, Len(p)) = p

\* the bytes the device may send next
ScriptNext(scripts) ==
    {SubSeq(s, Len(reads) + 1, Len(reads) + 1) :
        s \in {x \in scripts : Len(reads) < Len(x) /\ IsPrefix(reads, x)}}

\* lines 386-424 on a scripted stream
F_ReadVolts ==
    F_ReadOf(ScriptNext(VoltsScripts), ScriptLen(VoltsScripts))

InitVolts ==
    /\ InitGlobals
    /\ current_status = InitStatus
    /\ serial_data = <<>>
    /\ data_safe = TRUE
    /\ ppc = [t \in ParseThreads |-> IF t = "status" THEN "loop" ELSE "idle"]
    /\ returned = <<>>
    /\ InitThreads
    /\ InitHistory

\* update_status outside any reboot, lines 1559-1585
StatusLoop ==
    \/ U_CallState
    \/ U_CallVolts
    \/ U_CallEvent
    \/ U_SkipStatus
    \/ U_CheckReboot

\* what every continuous scan runs: lines 494-497, 552-553, 600-607
ScanCommon(t) ==
    \/ P_CheckLen(t)
    \/ P_CheckFlag(t)
    \/ P_Take(t)
    \/ P_Scan(t)
    \/ P_SentinelState(t)
    \/ P_SentinelLatch(t)
    \/ P_SentinelClear(t)
    \/ P_Release(t)

NextVolts ==
    \/ F_ReadVolts
    \/ ReaderPush
    \/ R_SetStopped
    \/ R_ClearLatch
    \/ StatusLoop
    \/ ScanCommon("status")
    \/ P_VoltsVin("status")
    \/ P_VoltsBatt("status")
    \/ P_VoltsClear("status")

SpecVolts == InitVolts /\ [][NextVolts]_vars

(***************************************************************************)
(* Claims about the voltage scan (SpecVolts).                              *)
(***************************************************************************)
RECURSIVE SkipBlanks(_)
SkipBlanks(s) ==
    IF Len(s) > 0 /\ SubSeq(s, 1, 1) = " "
    THEN SkipBlanks(SubSeq(s, 2, Len(s))) ELSE s

RECURSIVE UpToSpace(_)
UpToSpace(s) ==
    IF Len(s) = 0 \/ SubSeq(s, 1, 1) = " " THEN ""
    ELSE SubSeq(s, 1, 1) \o UpToSpace(SubSeq(s, 2, Len(s)))

\* the text between a marker and the next space, blanks after the marker
\* skipped
FieldAfter(l, marker) ==
    LET at == CHOOSE i \in 1..Len(l) :
                 /\ i + Len(marker) - 1 <= Len(l)
                 /\ SubSeq(l, i, i + Len(marker) - 1) = marker
                 /\ \A j \in 1..(i - 1) :
                        SubSeq(l, j, j + Len(marker) - 1) # marker
    IN  UpToSpace(SkipBlanks(SubSeq(l, at + Len(marker), Len(l))))

\* the voltage scan has matched the line it fetched last
VoltsMatched ==
    /\ target["status"] = HookVolts
    /\ ppc["status"] = "p_release"
    /\ Contains(pline["status"].text, "Vin")

\* C11: a voltage scan that matches a line with 'Batt' sets both voltages
\* to the text between the marker and the next space plus ' mV' (1200 mV
\* and 900 mV for 'Vin 1200 Batt 900' framed under LF) and then empties the
\* queue
C11_VoltsScan ==
    /\ [](VoltsMatched /\ Contains(pline["status"].text, "Batt") =>
            /\ current_status.vin =
                   FieldAfter(pline["status"].text, "Vin") \o " mV"
            /\ current_status.batt =
                   FieldAfter(pline["status"].text, "Batt") \o " mV")
    /\ [](VoltsMatched /\ pline["status"].text = "Vin 1200 Batt 900" =>
            /\ current_status.vin = "1200 mV"
            /\ current_status.batt = "900 mV")
    /\ [][(/\ target["status"] = HookVolts
           /\ ppc["status"] \in {"p_scan", "v_vin", "v_batt", "v_clear"}
           /\ ppc'["status"] = "p_release"
           /\ Contains(pline'["status"].text, "Vin"))
              => serial_data' = <<>>]_vars

\* the bytes of the scenario have been framed and scanned
C11_Witness ==
    /\ reads = "Vin 1200 Batt 900\n"
    /\ line_break_rx = <<1, 0, 0>>
    /\ timeouts = 0
    /\ VoltsMatched
    /\ pline["status"].text = "Vin 1200 Batt 900"
    /\ current_status.vin = "1200 mV"
    /\ current_status.batt = "900 mV"
    /\ serial_data = <<>>

(***************************************************************************)
(* SpecFields: a Settings extraction (the 'settings' thread) and a Version *)
(* extraction (the 'status' thread) on a queue that holds device output.   *)
(***************************************************************************)
FieldInputs ==
    {"settings[62]=1.2.3.4", "settings[62]= 5 ", "settings[06]",
     "main=A1 imei=77", "main=B2"}

\* the queues of 1 .. MaxFieldLines lines of device output
FieldQueues ==
    UNION {[1..n -> FieldInputs] : n \in 1..MaxFieldLines}

InitFields ==
    /\ InitGlobals
    /\ InitThreads
    /\ InitHistory
    /\ returned = <<>>
    /\ current_status = InitStatus
    /\ data_safe = TRUE
    /\ ppc = [t \in ParseThreads |-> IF t = "status" THEN "loop" ELSE "idle"]
    /\ \E q \in FieldQueues :
          serial_data = [i \in 1..Len(q) |-> [id |-> i - Len(q), text |-> q[i]]]

NextFields ==
    \/ U_CallVersion
    \/ U_SkipStatus
    \/ U_CheckReboot
    \/ T_CallSettings
    \/ \E t \in ParseThreads : Extract(t)

SpecFields == InitFields /\ [][NextFields]_vars

(***************************************************************************)
(* Claims about the field extraction (SpecFields).                         *)
(***************************************************************************)
\* the key the extraction of thread t is about to process
KeyAt(t) ==
    IF target[t] = "Settings" THEN SettingKeys[kidx[t]] ELSE InfoKeys[kidx[t]]

\* the marker searched for, and the field read after the step
MarkerOf(t) ==
    IF target[t] = "Settings" THEN KeyAt(t) ELSE KeyAt(t) \o "="

\* thread t processes one key in this step, without error
KeyStep(t) ==
    /\ ppc[t] = "p_keys"
    /\ kidx'[t] = kidx[t] + 1

\* the positions of the snapshot lines that hold the marker
Holders(t) ==
    {i \in 1..Len(temp[t]) : Contains(temp[t][i].text, MarkerOf(t))}

First(S) == CHOOSE i \in S : \A j \in S : i <= j
Last(S) == CHOOSE i \in S : \A j \in S : j <= i

\* the value a line gives: for Settings the text after the first '=' less
\* its leading whitespace, for Version the text after the marker up to the
\* next space
ValueIn(t, l) ==
    IF target[t] = "Settings"
    THEN SkipBlanks(SubSeq(l, Find(l, "=") + 1, Len(l)))
    ELSE UpToSpace(SubSeq(l, Find(l, MarkerOf(t)) + Len(MarkerOf(t)), Len(l)))

FieldAfterStep(t) ==
    IF target[t] = "Settings"
    THEN current_settings'[KeyAt(t)] ELSE device_info'[KeyAt(t)]

\* C12 as stated: a key whose marker appears in the snapshot gets the value
\* of the first snapshot line that holds the marker
C12_FirstMatch ==
    [][\A t \in ParseThreads :
          (KeyStep(t) /\ Holders(t) # {}) =>
              FieldAfterStep(t) = ValueIn(t, temp[t][First(Holders(t))].text)
      ]_vars

\* C12, amended: a key processed without error whose marker appears in the
\* snapshot gets the value of the last snapshot line that holds the marker;
\* the single line 'settings[62]=1.2.3.4' sets field 62 to '1.2.3.4'
C12_LastMatch ==
    [][\A t \in ParseThreads :
          /\ (KeyStep(t) /\ Holders(t) # {}) =>
                FieldAfterStep(t) = ValueIn(t, temp[t][Last(Holders(t))].text)
          /\ (/\ KeyStep(t)
              /\ target[t] = "Settings"
              /\ KeyAt(t) = "settings[62]"
              /\ Texts(temp[t]) = <<"settings[62]=1.2.3.4">>)
                 => current_settings'["settings[62]"] = "1.2.3.4"
      ]_vars

\* two lines held the key of field 62; the field has the value of the second
C12_Witness ==
    /\ ppc["settings"] = "p_keys"
    /\ kidx["settings"] = 3
    /\ Texts(temp["settings"]) = <<"settings[62]=1.2.3.4", "settings[62]= 5 ">>
    /\ current_settings["settings[62]"] = "5 "

\* the single line of the scenario has set field 62
C12_RoundTrip ==
    /\ ppc["settings"] = "p_keys"
    /\ kidx["settings"] = 3
    /\ Texts(temp["settings"]) = <<"settings[62]=1.2.3.4">>
    /\ current_settings["settings[62]"] = "1.2.3.4"

(***************************************************************************)
(* SpecScanErrors: the reader and the 'status' thread on device output     *)
(* that is malformed in the ways the scans provide for.                    *)
(***************************************************************************)
ScanErrorInputs ==
    {StatePrefix \o "Moving Vin 1200",
     StatePrefix \o "Idling Vin 11 Batt 9",
     HookState,
     HookEvent \o " BOGUS",
     HookEvent}

InitScanErrors ==
    /\ InitGlobals
    /\ current_status = InitStatus
    /\ serial_data = <<>>
    /\ data_safe = TRUE
    /\ ppc = [t \in ParseThreads |-> IF t = "status" THEN "loop" ELSE "idle"]
    /\ returned = <<>>
    /\ InitThreads
    /\ InitHistory

NextScanErrors ==
    \/ R_Line(ScanErrorInputs, MaxLines)
    \/ ReaderPush
    \/ StatusLoop
    \/ P_CheckLen("status")
    \/ P_CheckFlag("status")
    \/ P_Take("status")
    \/ P_Scan("status")
    \/ P_VoltsVin("status")
    \/ P_VoltsBatt("status")
    \/ P_VoltsClear("status")
    \/ P_State("status")
    \/ P_StateVin("status")
    \/ P_StateBatt("status")
    \/ P_Event("status")
    \/ P_Release("status")

SpecScanErrors == InitScanErrors /\ [][NextScanErrors]_vars

(***************************************************************************)
(* Claims about failed extractions (SpecScanErrors, SpecFields).           *)
(***************************************************************************)
\* the processing of the line the scan has fetched fails: a state line
\* with a valid token and 'Vin' but no 'Batt' (IndexError at line 579), an
\* event line whose code is unknown or cut off (KeyError at line 583)
ScanFails(t) ==
    /\ Contains(pline[t].text, target[t])
    /\ \/ /\ target[t] = HookState
          /\ StateToken(pline[t].text) \in VALID_STATES
          /\ Contains(pline[t].text, "Vin")
          /\ ~Contains(pline[t].text, "Batt")
       \/ /\ target[t] = HookEvent
          /\ EventCode(pline[t].text) \notin EventCodes

\* the scan of thread t takes a step on the line it has fetched
ScanStep(t) ==
    /\ ppc[t] \in {"st_state", "st_vin", "st_batt", "ev_event"}
    /\ ppc'[t] # ppc[t]

\* C13 as stated, for the scans: a line whose processing fails changes no
\* field of Current Status, Current Settings or Device Info
C13_FailedLineChangesNothing ==
    [][\A t \in ParseThreads :
          (ScanStep(t) /\ ScanFails(t)) => UNCHANGED recordVars
      ]_vars

\* an event line with an unknown code changes no field
C13_UnknownEventChangesNothing ==
    [][\A t \in ParseThreads :
          (ScanStep(t) /\ ScanFails(t) /\ target[t] = HookEvent)
              => UNCHANGED recordVars
      ]_vars

\* a state line without 'Batt' has failed after it changed state and
\* input voltage
C13_PartialUpdate ==
    /\ ppc["status"] = "p_release"
    /\ target["status"] = HookState
    /\ pline["status"].text = StatePrefix \o "Moving Vin 1200"
    /\ current_status.state = "Moving"
    /\ current_status.vin = "1200 mV"
    /\ current_status.batt = "Reading..."

\* the positions of the snapshot lines that hold the key but no '='
Failing(t) ==
    {i \in Holders(t) : ~Contains(temp[t][i].text, "=")}

\* a Settings extraction ends on a line without '=' (IndexError at line
\* 516): the field keeps what the lines before that one gave it, and no
\* other field changes
C13_SettingsFailure ==
    [][\A t \in ParseThreads :
          (/\ ppc[t] = "p_keys"
           /\ target[t] = "Settings"
           /\ kidx[t] <= Len(SettingKeys)
           /\ <<ppc'[t], kidx'[t]>> # <<ppc[t], kidx[t]>>
           /\ Failing(t) # {})
              => LET before == {i \in Holders(t) : i < First(Failing(t))}
                 IN  /\ ppc'[t] = "idle"
                     /\ current_settings'[KeyAt(t)] =
                            IF before = {} THEN current_settings[KeyAt(t)]
                            ELSE ValueIn(t, temp[t][Last(before)].text)
                     /\ \A k \in DOMAIN current_settings :
                            k # KeyAt(t) =>
                                current_settings'[k] = current_settings[k]
                     /\ UNCHANGED <<device_info, current_status>>
      ]_vars

(***************************************************************************)
(* The port functions, as the thread of the window runs them: open_port,   *)
(* close_port, change_port and reconnect, statement by statement where a   *)
(* call can stop half way.  api.op is the function that was called from    *)
(* outside, api.port its argument, api.closed and api.opened the results   *)
(* of the calls of close_port and open_port made on the way, api.pre the   *)
(* globals as the call found them.                                         *)
(***************************************************************************)
\* lines a connection can have queued when a port function is called
MaxPortLines == 2

Ports == {"COM3", "COM4"}

\* serial_connection = None
NoConnection == [handle |-> FALSE, port |-> None, is_open |-> FALSE]

Globals ==
    <<serial_connection, working_com_port, serial_safe, serial_data,
      line_break_rx, line_break_tx>>

ApiFrame ==
    <<data_safe, device_sleep, breakVars, recordVars, rpc, line, ret,
      parseVars, framerVars, retryVars, nlines, returned, last_pushed,
      snapVars, pushVars, sent, threadVars>>

Entry(op) ==
    CASE op = "open" -> "o_open"
      [] op = "close" -> "c_test"
      [] op = "change" -> "ch_test"
      [] op = "reconnect" -> "rc_test"
      [] op = "send_cr" -> "w_save"

\* a call of one of the four functions from outside
A_Call(op, port) ==
    /\ api.pc \in {"idle", "ret"}
    /\ api' = [NoCall EXCEPT !.pc = Entry(op), !.op = op, !.port = port,
                             !.pre = Globals, !.last_open = api.last_open]
    /\ UNCHANGED <<connVars, serial_data, ApiFrame>>

\* the return of close_port: to the caller outside, or into change_port
\* at line 345
CloseReturns(r) ==
    api' = [api EXCEPT !.closed = r,
                       !.pc = IF api.op = "close" THEN "ret" ELSE "ch_closed",
                       !.res = IF api.op = "close" THEN r ELSE @]

\* line 316
Close_Test ==
    /\ api.pc = "c_test"
    /\ IF serial_connection.handle
           THEN api' = [api EXCEPT !.pc = "c_unsafe"]
           ELSE CloseReturns("True")
    /\ UNCHANGED <<connVars, serial_data, ApiFrame>>

\* line 318
Close_Unsafe ==
    /\ api.pc = "c_unsafe"
    /\ serial_safe' = FALSE
    /\ api' = [api EXCEPT !.pc = "c_flush"]
    /\ UNCHANGED <<serial_connection, working_com_port, serial_data,
                   ApiFrame>>

\* line 319, lines 328-330: flush() raises SerialException on a port that
\* is not open, and may raise on one that is
Close_Flush ==
    /\ api.pc = "c_flush"
    /\ \E flushed \in BOOLEAN :
           IF flushed /\ serial_connection.is_open
               THEN api' = [api EXCEPT !.pc = "c_close"]
               ELSE CloseReturns("False")
    /\ UNCHANGED <<connVars, serial_data, ApiFrame>>

\* line 320
Close_Close ==
    /\ api.pc = "c_close"
    /\ serial_connection' = [serial_connection EXCEPT !.is_open = FALSE]
    /\ api' = [api EXCEPT !.pc = "c_none"]
    /\ UNCHANGED <<working_com_port, serial_safe, serial_data, ApiFrame>>

\* line 321
Close_None ==
    /\ api.pc = "c_none"
    /\ serial_connection' = NoConnection
    /\ api' = [api EXCEPT !.pc = "c_port"]
    /\ UNCHANGED <<working_com_port, serial_safe, serial_data, ApiFrame>>

\* line 322
Close_Port ==
    /\ api.pc = "c_port"
    /\ working_com_port' = None
    /\ api' = [api EXCEPT !.pc = "c_clear"]
    /\ UNCHANGED <<serial_connection, serial_safe, serial_data, ApiFrame>>

\* line 324 without the serial_data.clear() of line 323
Close_Clear_KeepsQueue ==
    /\ api.pc = "c_clear"
    /\ CloseReturns("True")
    /\ UNCHANGED <<connVars, serial_data, ApiFrame>>

\* lines 323-324
Close_Clear ==
    /\ api.pc = "c_clear"
    /\ serial_data' = <<>>
    /\ CloseReturns("True")
    /\ UNCHANGED <<connVars, ApiFrame>>

close_port ==
    \/ Close_Test
    \/ Close_Unsafe
    \/ Close_Flush
    \/ Close_Close
    \/ Close_None
    \/ Close_Port
    \/ Close_Clear

\* lines 343-345: change_port calls close_port when there is a connection
Change_Test ==
    /\ api.pc = "ch_test"
    /\ api' = [api EXCEPT !.pc = IF serial_connection.handle
                                     THEN "c_test" ELSE "o_open"]
    /\ UNCHANGED <<connVars, serial_data, ApiFrame>>

\* line 347 whatever close_port returned
Change_Closed_OpensAnyway ==
    /\ api.pc = "ch_closed"
    /\ api' = [api EXCEPT !.pc = "o_open"]
    /\ UNCHANGED <<connVars, serial_data, ApiFrame>>

\* lines 345-347
Change_Closed ==
    /\ api.pc = "ch_closed"
    /\ api' = IF api.closed = "True"
                  THEN [api EXCEPT !.pc = "o_open"]
                  ELSE [api EXCEPT !.pc = "ret", !.res = "False"]
    /\ UNCHANGED <<connVars, serial_data, ApiFrame>>

\* lines 282-286 with an existing connection; lines 289-299 without one,
\* where Serial(port=None) opens nothing and open() then raises; lines
\* 302-304 when opening raises SerialException
Open_Port ==
    /\ api.pc = "o_open"
    /\ IF serial_connection.handle
           THEN /\ serial_safe' = TRUE
                /\ working_com_port' = api.port
                /\ api' = [api EXCEPT !.pc = "ret", !.res = "True",
                                      !.opened = "True"]
                /\ UNCHANGED serial_connection
           ELSE \E opens \in BOOLEAN :
                    IF opens /\ api.port # None
                        THEN /\ serial_connection' =
                                    [handle |-> TRUE, port |-> api.port,
                                     is_open |-> TRUE]
                             /\ serial_safe' = TRUE
                             /\ working_com_port' = api.port
                             /\ api' = [api EXCEPT !.pc = "ret",
                                                   !.res = "True",
                                                   !.opened = "True",
                                                   !.last_open = api.port]
                        ELSE /\ api' = [api EXCEPT !.pc = "ret",
                                                   !.res = "False",
                                                   !.opened = "False"]
                             /\ UNCHANGED connVars
    /\ UNCHANGED <<serial_data, ApiFrame>>

\* lines 357-365 with a connection: close(), open(), isOpen(), and lines
\* 369-371 when open() raises; line 367 without one
Reconnect_Test ==
    /\ api.pc = "rc_test"
    /\ IF serial_connection.handle
           THEN \E opens \in BOOLEAN :
                    /\ serial_connection' =
                           [serial_connection EXCEPT !.is_open = opens]
                    /\ api' = [api EXCEPT
                                  !.pc = "ret",
                                  !.res = IF opens THEN "True" ELSE "False"]
           ELSE /\ api' = [api EXCEPT !.pc = "ch_test",
                                      !.port = working_com_port]
                /\ UNCHANGED serial_connection
    /\ UNCHANGED <<working_com_port, serial_safe, serial_data, ApiFrame>>

(***************************************************************************)
(* SpecPort: the four port functions called one after the other, in any    *)
(* order and with any port, by a single thread.  The behaviour starts      *)
(* either from the globals as the module defines them, or from an open     *)
(* connection with lines in the queue.                                     *)
(***************************************************************************)
InitClosed ==
    /\ serial_connection = NoConnection
    /\ working_com_port = None
    /\ serial_safe = FALSE
    /\ device_sleep = FALSE
    /\ line_break_rx = <<1, 0, 0>>
    /\ line_break_tx = <<1, 0, 0>>
    /\ device_info = [k \in Range(InfoKeys) |-> ""]
    /\ current_settings = [k \in Range(SettingKeys) |-> ""]

InitPort ==
    /\ \/ InitClosed /\ serial_data = <<>>
       \/ InitGlobals /\ serial_data \in {Backlog(n) : n \in 0..MaxPortLines}
    /\ data_safe = TRUE
    /\ current_status = InitStatus
    /\ ppc = [t \in ParseThreads |-> "idle"]
    /\ returned = <<>>
    /\ InitThreads
    /\ InitHistory

PortCall ==
    \/ A_Call("close", None)
    \/ \E p \in Ports : A_Call("open", p)
    \/ \E p \in Ports : A_Call("change", p)
    \/ A_Call("reconnect", None)

NextPort ==
    \/ PortCall
    \/ close_port
    \/ Change_Test
    \/ Change_Closed
    \/ Open_Port
    \/ Reconnect_Test

SpecPort == InitPort /\ [][NextPort]_vars

\* close_port, or the close_port that change_port called, has just returned
CloseReturned ==
    \/ api.op = "close" /\ api.pc = "ret"
    \/ api.pc = "ch_closed"

ClosedState ==
    /\ serial_connection = NoConnection
    /\ working_com_port = None
    /\ serial_safe = FALSE

\* C14: when close_port returns True there is no connection handle, no
\* active-port marker, serial_safe is false and the queue is empty; called
\* when nothing is open it returns True and leaves every global as it was.
C14_ClosePort ==
    /\ (CloseReturned /\ api.closed = "True")
           => (ClosedState /\ serial_data = <<>>)
    /\ (api.op = "close" /\ api.pc = "ret" /\ ~api.pre[1].handle)
           => (api.res = "True" /\ Globals = api.pre)

\* close_port has closed an open connection that had lines queued
C14_Witness ==
    /\ api.op = "close"
    /\ api.pc = "ret"
    /\ api.res = "True"
    /\ api.pre[1].is_open
    /\ api.pre[3]
    /\ Len(api.pre[4]) = MaxPortLines

\* close_port is called when nothing is open
C14_NothingOpen ==
    api.op = "close" /\ api.pc = "ret" /\ ~api.pre[1].handle

\* change_port has returned: called from outside, or by reconnect at line
\* 367 when it found no connection
ChangeReturned ==
    /\ api.pc = "ret"
    /\ \/ api.op = "change"
       \/ api.op = "reconnect" /\ ~api.pre[1].handle

\* C15: when the close_port that change_port calls fails, change_port
\* returns False and open_port is not called, so the globals are as
\* close_port left them; in every other case open_port is called with the
\* port given and change_port returns what open_port returned.
C15_ChangePort ==
    /\ (ChangeReturned /\ api.closed = "False")
           => /\ api.res = "False"
              /\ api.opened = ""
              /\ serial_connection = api.pre[1]
              /\ working_com_port = api.pre[2]
    /\ (ChangeReturned /\ api.closed # "False")
           => /\ api.opened # ""
              /\ api.res = api.opened
              /\ api.res = "True" => working_com_port = api.port

\* change_port has returned after its close_port failed
C15_Witness ==
    api.op = "change" /\ api.pc = "ret" /\ api.closed = "False"

\* change_port has closed one port and opened another
C15_Changed ==
    /\ api.op = "change"
    /\ api.pc = "ret"
    /\ api.closed = "True"
    /\ api.res = "True"
    /\ api.pre[2] # None
    /\ working_com_port # api.pre[2]

\* C16: whenever open_port or change_port returns False the system is in
\* the closed state: no connection handle, serial_safe false, no
\* active-port marker.
C16_FailureLeavesClosed ==
    (api.pc = "ret" /\ api.op \in {"open", "change"} /\ api.res = "False")
        => ClosedState

\* what holds instead: a failed open_port has assigned nothing, and a
\* change_port that failed in its close_port keeps the handle and the
\* marker with serial_safe false
C16_FailureAsCoded ==
    /\ (api.pc = "ret" /\ api.opened = "False")
           => (ClosedState /\ (api.op = "open" => Globals = api.pre))
    /\ (api.pc = "ret" /\ api.op = "change" /\ api.closed = "False")
           => /\ serial_connection = api.pre[1]
              /\ serial_connection.handle
              /\ working_com_port = api.pre[2]
              /\ serial_safe = FALSE

\* C17: open_port called while a connection is live on another port does
\* not return True and does not change the active-port marker.
C17_DirectOpenIsError ==
    (/\ api.op = "open"
     /\ api.pc = "ret"
     /\ api.pre[1].is_open
     /\ api.pre[3]
     /\ api.pre[1].port # api.port)
        => (api.res = "False" /\ working_com_port = api.pre[2])

\* the marker names the port of the handle that is open
MarkerNamesHandle ==
    serial_connection.is_open => working_com_port = serial_connection.port

\* open_port has returned True with the marker on a port that the open
\* handle is not on
C17_MarkerMoved ==
    /\ api.op = "open"
    /\ api.pc = "ret"
    /\ api.res = "True"
    /\ serial_connection.is_open
    /\ serial_connection.port = "COM3"
    /\ working_com_port = "COM4"

\* without direct calls of open_port the marker names the open handle
C17_MarkerViaChangePort ==
    [](api.op # "open") => []MarkerNamesHandle

\* C18: with a connection handle reconnect closes and reopens that handle,
\* does not call change_port and changes neither the marker nor the queue;
\* without one it calls change_port with the port of the most recent
\* successful open.
C18_Reconnect ==
    /\ (api.op = "reconnect" /\ api.pc = "ret" /\ api.pre[1].handle)
           => /\ api.closed = "" /\ api.opened = ""
              /\ serial_connection.handle
              /\ serial_connection.port = api.pre[1].port
              /\ working_com_port = api.pre[2]
              /\ serial_data = api.pre[4]
    /\ (api.op = "reconnect" /\ api.pc = "ch_test")
           => api.port = api.last_open

\* the first half of C18: a reconnect on an existing handle
C18_SameHandle ==
    (api.op = "reconnect" /\ api.pc = "ret" /\ api.pre[1].handle)
        => /\ api.closed = "" /\ api.opened = ""
           /\ serial_connection.handle
           /\ serial_connection.port = api.pre[1].port
           /\ (api.res = "True") = serial_connection.is_open
           /\ working_com_port = api.pre[2]
           /\ serial_safe = api.pre[3]
           /\ serial_data = api.pre[4]

\* without a handle reconnect passes None to change_port and fails
C18_NoHandleFails ==
    (api.op = "reconnect" /\ ~api.pre[1].handle /\ api.pc # "rc_test")
        => /\ api.port = None
           /\ api.pc = "ret" => (api.res = "False" /\ Globals = api.pre)

\* reconnect is called after a port was opened and closed again
C18_AfterClose ==
    /\ api.op = "reconnect"
    /\ api.pc = "ret"
    /\ ~api.pre[1].handle
    /\ api.last_open = "COM4"

(***************************************************************************)
(* send_serial_command, statement by statement, for the specifications in  *)
(* which another thread closes or reopens the port while a command is      *)
(* being sent.  A thread is at its call site (line 501 or 525 of           *)
(* parse_serial_data, line 1493 of send_console_command), runs the call    *)
(* in sent[t], and goes on from the call site when the call has ended.     *)
(***************************************************************************)
\* lines 652-657: nl_char for a transmit policy
nl_char(tx) ==
    IF tx[1] # 0 THEN "\n" ELSE IF tx[2] # 0 THEN "\r" ELSE "\r\n"

AtCallSite(t) ==
    IF t = "window" THEN api.pc = "w_send" ELSE ppc[t] = "p_send"

CommandOf(t) ==
    CASE t = "window" -> "AT"
      [] target[t] = "Settings" -> "settings"
      [] target[t] = "Version" -> "version"

SendFrame ==
    <<connVars, serial_data, data_safe, device_sleep, breakVars, recordVars,
      rpc, line, ret, target, idx, pline, temp, kidx, framerVars, retryVars,
      nlines, returned, last_pushed, snapVars, pushVars, threadVars>>

\* lines 652-658: the call starts and builds command_nl
S_Begin(t) ==
    /\ AtCallSite(t)
    /\ sent' = [sent EXCEPT ![t] =
                   [pc |-> "safe", cmd |-> CommandOf(t),
                    nl |-> nl_char(line_break_tx), res |-> ""]]
    /\ IF t = "window"
           THEN api' = [api EXCEPT !.pc = "w_sending"] /\ UNCHANGED ppc
           ELSE ppc' = [ppc EXCEPT ![t] = "p_sending"] /\ UNCHANGED api
    /\ UNCHANGED SendFrame

Ends(t, r) == sent' = [sent EXCEPT ![t].pc = "done", ![t].res = r]

\* lines 660 and 676-678
S_Safe(t) ==
    /\ sent[t].pc = "safe"
    /\ IF serial_safe
           THEN sent' = [sent EXCEPT ![t].pc = "waiting"]
           ELSE Ends(t, "False")
    /\ UNCHANGED <<SendFrame, ppc, api>>

\* an attribute of serial_connection is used: None has no such attribute
\* and the AttributeError is not caught by the handler of line 672; a port
\* that is not open raises SerialException, an open port may
UsesPort(t, next) ==
    IF ~serial_connection.handle
        THEN Ends(t, "AttributeError")
        ELSE \E raises \in BOOLEAN :
                 IF raises \/ ~serial_connection.is_open
                     THEN Ends(t, "False")
                     ELSE next

\* lines 663-665: out_waiting and reset_output_buffer()
S_Waiting(t) ==
    /\ sent[t].pc = "waiting"
    /\ UsesPort(t, sent' = [sent EXCEPT ![t].pc = "write"])
    /\ UNCHANGED <<SendFrame, ppc, api>>

\* lines 668-671: write(), the settle time and return True
S_Write(t) ==
    /\ sent[t].pc = "write"
    /\ UsesPort(t, Ends(t, "True"))
    /\ UNCHANGED <<SendFrame, ppc, api>>

send_serial_command(t) ==
    \/ S_Begin(t)
    \/ S_Safe(t)
    \/ S_Waiting(t)
    \/ S_Write(t)

\* lines 501-504 and 525-528: parse_serial_data goes on with what
\* send_serial_command returned; an exception leaves parse_serial_data and
\* ends the thread, with data_safe as line 497 set it
P_SendReturns(t) ==
    /\ ppc[t] = "p_sending"
    /\ sent[t].pc = "done"
    /\ ppc' = [ppc EXCEPT ![t] =
                  CASE sent[t].res = "True" -> "p_copy"
                    [] sent[t].res = "False" -> "p_abort"
                    [] OTHER -> "raised"]
    /\ UNCHANGED <<ParseFrame, serial_data, data_safe, device_sleep,
                   recordVars, target, idx, pline, temp, kidx, snapVars>>

(***************************************************************************)
(* send_console_command with force_cr, lines 1490-1494, run by the thread  *)
(* of the window.                                                          *)
(***************************************************************************)
WindowFrame ==
    <<connVars, serial_data, data_safe, device_sleep, recordVars, rpc, line,
      ret, parseVars, framerVars, retryVars, nlines, returned, last_pushed,
      snapVars, pushVars, sent, threadVars>>

\* line 1491
W_SaveTx ==
    /\ api.pc = "w_save"
    /\ api' = [api EXCEPT !.pc = "w_setcr", !.temp_lb = line_break_tx]
    /\ UNCHANGED <<WindowFrame, breakVars>>

\* line 1492
W_SetCR ==
    /\ api.pc = "w_setcr"
    /\ line_break_tx' = <<0, 1, 0>>
    /\ api' = [api EXCEPT !.pc = "w_send"]
    /\ UNCHANGED <<WindowFrame, line_break_rx>>

\* lines 1493-1494 and 1501: the policy is put back when the call returns;
\* an exception leaves send_console_command before line 1494
W_Restore ==
    /\ api.pc = "w_sending"
    /\ sent["window"].pc = "done"
    /\ api' = [api EXCEPT !.pc = "ret", !.res = sent["window"].res]
    /\ IF sent["window"].res = "AttributeError"
           THEN UNCHANGED line_break_tx
           ELSE line_break_tx' = api.temp_lb
    /\ UNCHANGED <<WindowFrame, line_break_rx>>

\* change_newline_break, lines 1679-1693, with set_line_break, lines
\* 707-708
W_SetLineBreak(policy) ==
    /\ api.pc \in {"idle", "ret"}
    /\ line_break_rx' = policy
    /\ line_break_tx' = policy
    /\ api' = [NoCall EXCEPT !.last_open = api.last_open]
    /\ UNCHANGED WindowFrame

\* AddCarriageReturnWindow.send_command, line 1038
W_SendCR ==
    A_Call("send_cr", None)

\* PUIbtoolWindow.__init__, lines 379-387: the port is closed for puibtool
\* while the threads are still running
W_Puibtool ==
    /\ serial_connection.handle
    /\ A_Call("close", None)

\* line 433 and reconnect(), line 367, without a Serial object:
\* change_port(working_com_port) finds no connection to close and calls
\* open_port, lines 289-304
R_ReconnectClosed ==
    /\ rpc = "reconnect"
    /\ ~serial_connection.handle
    /\ \E opens \in BOOLEAN :
          LET ok == opens /\ working_com_port # None
          IN  /\ IF ok THEN /\ serial_connection' =
                                   [handle |-> TRUE,
                                    port |-> working_com_port,
                                    is_open |-> TRUE]
                            /\ serial_safe' = TRUE
                       ELSE UNCHANGED <<serial_connection, serial_safe>>
              /\ attempts' = Append(attempts, ok)
              /\ rpc' = IF ok THEN "reconnected" ELSE "retry"
    /\ UNCHANGED <<ioVars, working_com_port, serial_data, data_safe,
                   device_sleep, breakVars, recordVars, line, ret, error_count,
                   waits, parseVars, framerVars, nlines, returned,
                   last_pushed, snapVars, pushVars>>

(***************************************************************************)
(* SpecSend: a command is sent while the port is closed and reopened.  The *)
(* 'status' thread requests the device info, the thread of the window      *)
(* opens the PUIbtool window, and the reader meets read errors and         *)
(* reconnects.                                                             *)
(***************************************************************************)
InitSend ==
    /\ InitGlobals
    /\ current_status = InitStatus
    /\ serial_data = Backlog(1)
    /\ data_safe = TRUE
    /\ ppc = [t \in ParseThreads |-> IF t = "status" THEN "loop" ELSE "idle"]
    /\ returned = <<>>
    /\ InitThreads
    /\ InitHistory

\* parse_serial_data('Version') with send_serial_command step by step
VersionRequest ==
    \/ U_CallVersion
    \/ U_SkipStatus
    \/ U_CheckReboot
    \/ P_CheckLen("status")
    \/ P_CheckFlag("status")
    \/ P_Take("status")
    \/ send_serial_command("status")
    \/ P_SendReturns("status")
    \/ P_Abort("status")
    \/ P_Copy("status")
    \/ P_Clear("status")
    \/ P_ReleaseEx("status")
    \/ P_Key("status")

NextSend ==
    \/ R_ReadFail
    \/ R_ReadNone
    \/ R_Reconnect
    \/ R_ReconnectClosed
    \/ R_Retry
    \/ R_Reconnected
    \/ R_ListenClosed
    \/ R_Console
    \/ VersionRequest
    \/ W_Puibtool
    \/ close_port

SpecSend == InitSend /\ [][NextSend]_vars

(***************************************************************************)
(* SpecForceCR: the thread of the window sends commands with force_cr and  *)
(* changes the line break while the 'status' thread requests the device    *)
(* info.                                                                   *)
(***************************************************************************)
LineBreaks == {<<1, 0, 0>>, <<0, 1, 0>>, <<0, 0, 1>>}

NextForceCR ==
    \/ VersionRequest
    \/ send_serial_command("window")
    \/ W_SendCR
    \/ W_SaveTx
    \/ W_SetCR
    \/ W_Restore
    \/ \E policy \in LineBreaks : W_SetLineBreak(policy)

SpecForceCR == InitSend /\ [][NextForceCR]_vars

(***************************************************************************)
(* Claims about send_serial_command (SpecSend, SpecForceCR).               *)
(***************************************************************************)
\* C19: send_serial_command returns False when serial_safe is false or the
\* write fails, True otherwise, and no exception leaves it, whatever the
\* other threads do to the port meanwhile.
C19_SendNeverRaises ==
    /\ [](\A t \in Senders : sent[t].res \in {"", "True", "False"})
    /\ [][\A t \in Senders :
              /\ (sent[t].pc = "safe" /\ sent'[t].pc = "done")
                     => (~serial_safe /\ sent'[t].res = "False")
              /\ (sent[t].pc = "write" /\ sent'[t].pc = "done"
                      /\ serial_connection.is_open)
                     => sent'[t].res \in {"True", "False"}]_vars

\* the exception has left parse_serial_data as well: the 'status' thread
\* has ended and data_safe stays false
C19_Raised ==
    /\ sent["status"].res = "AttributeError"
    /\ ppc["status"] = "raised"
    /\ ~data_safe

\* every call made while no thread closes the port returns True or False
C19_QuietPort ==
    [](api.op # "close") =>
        [](\A t \in Senders : sent[t].res \in {"", "True", "False"})

\* the line break the user has selected: during a send with force_cr it
\* is the one that call found
SelectedTx ==
    IF api.op = "send_cr" /\ api.pc \in {"w_send", "w_sending"}
        THEN api.pre[6]
        ELSE line_break_tx

ForceCRSent ==
    /\ api.op = "send_cr"
    /\ api.pc \in {"w_sending", "ret"}

\* the command sent with force_cr ends in CR; when the call has returned
\* line_break_tx is what it was before the call; line_break_rx is never
\* changed by the call
C20_OwnCommand ==
    /\ [](ForceCRSent => sent["window"].nl = "\r")
    /\ []((api.op = "send_cr" /\ api.pc = "ret")
              => line_break_tx = api.pre[6])
    /\ [](api.op = "send_cr" => line_break_rx = api.pre[5])

\* every other command gets the terminator of the selected line break
OthersKeepPolicy ==
    \A t \in ParseThreads :
        (ppc[t] = "p_send" /\ ppc'[t] = "p_sending")
            => sent'[t].nl = nl_char(SelectedTx)

\* C20: a send with force_cr appends CR to that one command only; when it
\* returns the transmit line break is the one that was active before the
\* call; the receive line break is not touched.
C20_ForceCR ==
    /\ C20_OwnCommand
    /\ [][OthersKeepPolicy]_vars

\* with <LF> selected the 'status' thread has sent 'version' with CR,
\* because it built the command during a send with force_cr
C20_OtherCommandGetsCR ==
    /\ api.op = "send_cr"
    /\ api.pc = "w_sending"
    /\ api.pre[6] = <<1, 0, 0>>
    /\ sent["status"].cmd = "version"
    /\ sent["status"].nl = "\r"
    /\ sent["status"].res = "True"

\* a send with force_cr has returned with <CRLF> selected
C20_Restored ==
    /\ api.op = "send_cr"
    /\ api.pc = "ret"
    /\ api.res = "True"
    /\ line_break_tx = <<0, 0, 1>>

(***************************************************************************)
(* The threads of the window.  start_console_thread is called on the       *)
(* thread of the window (the COM port menu, line 1167, and exit_puib, line *)
(* 495) and on the 'puibtool' thread (run_puibtool, lines 436 and 477).    *)
(* Every 'console' thread runs serial_console: the connection loop of      *)
(* lines 1301-1338, then the console loop of lines 1345-1372.              *)
(***************************************************************************)
ThreadFrame ==
    <<data_safe, device_sleep, breakVars, recordVars, rpc, line, ret,
      parseVars, framerVars, retryVars, nlines, returned, last_pushed,
      snapVars, pushVars, api, sent>>

Console(i) == thr.console[i]

SetConsole(i, r) == thr' = [thr EXCEPT !.console[i] = r]

SetCaller(c, r) == thr' = [thr EXCEPT !.caller[c] = r]

\* the calls of start_console_thread in progress
Starting == {c \in Callers : thr.caller[c].pc # "idle"}

\* a caller enters start_console_thread(port)
StartCall(c, port, from) ==
    /\ thr.caller[c].pc = "idle"
    /\ ~win.exiting
    /\ thr.made + Cardinality(Starting) < MaxConsoleThreads
    /\ SetCaller(c, [NoStart EXCEPT !.pc = "s_flag", !.port = port,
                                    !.from = from])

\* line 1167: a port is picked in the COM port menu
G_Menu(port) ==
    /\ StartCall("gui", port, "menu")
    /\ UNCHANGED <<win, Globals, ThreadFrame>>

\* close_port (lines 315-328) as one step of a thread that is not the
\* caller of the port functions of the window
CloseNow(ok) ==
    IF ok /\ serial_connection.is_open
        THEN /\ serial_connection' = NoConnection
             /\ working_com_port' = None
             /\ serial_safe' = FALSE
             /\ serial_data' = <<>>
        ELSE /\ serial_safe' = FALSE
             /\ UNCHANGED <<serial_connection, working_com_port, serial_data>>

\* PUIbtoolWindow.__init__ lines 379-389: the port is closed for the tool;
\* when close_port fails exit_puib is called at once
G_OpenPuibtool ==
    /\ ~win.puib_window
    /\ ~win.exiting
    /\ thr.caller["gui"].pc = "idle"
    /\ serial_connection.handle
    /\ \E flushed \in BOOLEAN :
           /\ CloseNow(flushed)
           /\ IF flushed /\ serial_connection.is_open
                  THEN /\ win' = [win EXCEPT !.run_puibtool_flag = TRUE,
                                             !.port_closed = TRUE,
                                             !.port_name = working_com_port,
                                             !.puib_window = TRUE]
                       /\ UNCHANGED thr
                  ELSE /\ thr.made + Cardinality(Starting) < MaxConsoleThreads
                       /\ win' = [win EXCEPT !.run_puibtool_flag = TRUE,
                                             !.port_closed = TRUE,
                                             !.port_name = working_com_port]
                       /\ SetCaller("gui", [NoStart EXCEPT
                                               !.pc = "s_flag",
                                               !.port = working_com_port,
                                               !.from = "exit_puib"])
    /\ UNCHANGED <<line_break_rx, line_break_tx, ThreadFrame>>

\* exit_puib lines 491-495: the PUIbtool window is closed by the user
G_ExitPuib ==
    /\ win.puib_window
    /\ win.port_closed
    /\ StartCall("gui", win.port_name, "exit_puib")
    /\ win' = [win EXCEPT !.puib_window = FALSE]
    /\ UNCHANGED <<Globals, ThreadFrame>>

\* run_puibtool lines 423-436 and 471-477: the tool cannot be run and the
\* 'puibtool' thread reconnects
P_Run ==
    /\ win.puib_window
    /\ win.port_closed
    /\ StartCall("puibtool", win.port_name, "run_puibtool")
    /\ UNCHANGED <<win, Globals, ThreadFrame>>

\* lines 1279-1283
SC_Flag(c) ==
    /\ thr.caller[c].pc = "s_flag"
    /\ win' = IF win.halt_threads_flag
                  THEN [win EXCEPT !.cancel_connect_flag = TRUE]
                  ELSE [win EXCEPT !.halt_threads_flag = TRUE]
    /\ SetCaller(c, [thr.caller[c] EXCEPT !.pc = "s_read"])
    /\ UNCHANGED <<Globals, ThreadFrame>>

\* line 1285: self.console_thread is read
SC_Read(c) ==
    /\ thr.caller[c].pc = "s_read"
    /\ SetCaller(c, [thr.caller[c] EXCEPT
                        !.pc = IF win.console_thread = 0
                                   THEN "s_new" ELSE "s_join",
                        !.joins = win.console_thread])
    /\ UNCHANGED <<win, Globals, ThreadFrame>>

\* line 1287: join() returns when the thread has ended, and raises
\* RuntimeError on a thread that was not started
SC_Join(c) ==
    /\ thr.caller[c].pc = "s_join"
    /\ LET old == Console(thr.caller[c].joins) IN
           \/ /\ old.pc \in {"done", "raised"}
              /\ SetCaller(c, [thr.caller[c] EXCEPT !.pc = "s_new"])
           \/ /\ old.pc = "created"
              /\ SetCaller(c, [thr.caller[c] EXCEPT !.pc = "idle",
                                                    !.res = "RuntimeError"])
    /\ UNCHANGED <<win, Globals, ThreadFrame>>

\* line 1288
SC_New(c) ==
    /\ thr.caller[c].pc = "s_new"
    /\ thr.made < MaxConsoleThreads
    /\ thr' = [thr EXCEPT !.made = @ + 1,
                          !.console[thr.made + 1] =
                              [NoThread EXCEPT !.pc = "created",
                                               !.port = thr.caller[c].port],
                          !.caller[c].pc = "s_start"]
    /\ win' = [win EXCEPT !.console_thread = thr.made + 1]
    /\ UNCHANGED <<Globals, ThreadFrame>>

\* line 1290: self.console_thread is read again and started; start() raises
\* RuntimeError on a thread that was started before
SC_Start(c) ==
    /\ thr.caller[c].pc = "s_start"
    /\ LET new == win.console_thread IN
           IF Console(new).pc = "created"
               THEN thr' = [thr EXCEPT !.console[new].pc = "connect",
                                       !.caller[c].pc = "s_ret"]
               ELSE thr' = [thr EXCEPT !.caller[c].pc = "idle",
                                       !.caller[c].res = "RuntimeError"]
    /\ UNCHANGED <<win, Globals, ThreadFrame>>

\* lines 437, 478, 496: the callers of the PUIbtool window clear
\* run_puibtool_flag when start_console_thread has returned
SC_Return(c) ==
    /\ thr.caller[c].pc = "s_ret"
    /\ win' = IF thr.caller[c].from = "menu"
                  THEN win
                  ELSE [win EXCEPT !.run_puibtool_flag = FALSE]
    /\ SetCaller(c, [thr.caller[c] EXCEPT !.pc = "idle", !.res = "None"])
    /\ UNCHANGED <<Globals, ThreadFrame>>

start_console_thread(c) ==
    \/ SC_Flag(c)
    \/ SC_Read(c)
    \/ SC_Join(c)
    \/ SC_New(c)
    \/ SC_Start(c)
    \/ SC_Return(c)

\* the port is held by a Serial object that is open: a second open of the
\* same port is refused by the system
PortBusy(port) ==
    \/ serial_connection.is_open /\ serial_connection.port = port
    \/ \E j \in ConsoleIds : Console(j).ser.is_open /\ Console(j).ser.port = port

\* line 1304 with change_port lines 343-346: the connection that exists is
\* closed first, and a failed close ends the attempt
T_Change(i) ==
    /\ Console(i).pc = "connect"
    /\ IF serial_connection.handle
           THEN \E flushed \in BOOLEAN :
                    /\ CloseNow(flushed)
                    /\ SetConsole(i, [Console(i) EXCEPT
                           !.pc = IF flushed /\ serial_connection.is_open
                                      THEN "o_test" ELSE "failed"])
           ELSE /\ SetConsole(i, [Console(i) EXCEPT !.pc = "o_test"])
                /\ UNCHANGED <<serial_connection, working_com_port,
                               serial_safe, serial_data>>
    /\ UNCHANGED <<win, line_break_rx, line_break_tx, ThreadFrame>>

\* open_port lines 282-286
T_OpenTest(i) ==
    /\ Console(i).pc = "o_test"
    /\ IF serial_connection.handle
           THEN /\ serial_safe' = TRUE
                /\ working_com_port' = Console(i).port
                /\ SetConsole(i, [Console(i) EXCEPT !.pc = "connected"])
           ELSE /\ SetConsole(i, [Console(i) EXCEPT !.pc = "o_create"])
                /\ UNCHANGED <<working_com_port, serial_safe>>
    /\ UNCHANGED <<win, serial_connection, serial_data, line_break_rx,
                   line_break_tx, ThreadFrame>>

\* open_port lines 291-293: ser = Serial(...) opens the port, or raises
\* SerialException (lines 302-304)
T_Create(i) ==
    /\ Console(i).pc = "o_create"
    /\ \E opens \in BOOLEAN :
           IF opens /\ ~PortBusy(Console(i).port)
               THEN SetConsole(i, [Console(i) EXCEPT
                        !.pc = "o_assign",
                        !.ser = [handle |-> TRUE, port |-> Console(i).port,
                                 is_open |-> TRUE]])
               ELSE SetConsole(i, [Console(i) EXCEPT !.pc = "failed"])
    /\ UNCHANGED <<win, Globals, ThreadFrame>>

\* open_port lines 294-299: the new object becomes the connection
T_Assign(i) ==
    /\ Console(i).pc = "o_assign"
    /\ serial_connection' = Console(i).ser
    /\ serial_safe' = TRUE
    /\ working_com_port' = Console(i).port
    /\ SetConsole(i, [Console(i) EXCEPT !.pc = "connected",
                                        !.ser = NoThread.ser])
    /\ UNCHANGED <<win, serial_data, line_break_rx, line_break_tx,
                   ThreadFrame>>

\* lines 1305-1322: halt_threads_flag is reset, and extend_window is called
\* when the extended window is open
T_Connected(i) ==
    /\ Console(i).pc = "connected"
    /\ win' = [win EXCEPT !.halt_threads_flag = FALSE]
    /\ SetConsole(i, [Console(i) EXCEPT
           !.pc = IF win.extend_window_flag THEN "x_toggle" ELSE "top"])
    /\ UNCHANGED <<Globals, ThreadFrame>>

\* extend_window lines 1602-1605 called by the 'console' thread
T_Extend(i) ==
    /\ Console(i).pc = "x_toggle"
    /\ IF serial_connection.handle
           THEN /\ win' = [win EXCEPT !.extend_window_flag = ~@]
                /\ SetConsole(i, [Console(i) EXCEPT
                       !.pc = IF win.extend_window_flag
                                  THEN "x_join" ELSE "top"])
           ELSE /\ SetConsole(i, [Console(i) EXCEPT !.pc = "top"])
                /\ UNCHANGED win
    /\ UNCHANGED <<Globals, ThreadFrame>>

\* extend_window line 1666: the 'console' thread waits for the 'status'
\* thread to end
T_JoinStatus(i) ==
    /\ Console(i).pc = "x_join"
    /\ thr.status \in {"none", "done"}
    /\ SetConsole(i, [Console(i) EXCEPT !.pc = "top"])
    /\ UNCHANGED <<win, Globals, ThreadFrame>>

\* lines 1324-1338: only cancel_connect_flag ends the connection loop
T_Failed(i) ==
    /\ Console(i).pc = "failed"
    /\ IF win.cancel_connect_flag
           THEN /\ win' = [win EXCEPT !.cancel_connect_flag = FALSE]
                /\ SetConsole(i, [Console(i) EXCEPT !.pc = "done"])
           ELSE /\ SetConsole(i, [Console(i) EXCEPT !.pc = "connect"])
                /\ UNCHANGED win
    /\ UNCHANGED <<Globals, ThreadFrame>>

\* lines 1348-1353 and 1384-1385
T_Top(i) ==
    /\ Console(i).pc = "top"
    /\ SetConsole(i, [Console(i) EXCEPT
           !.pc = IF win.run_puibtool_flag \/ win.halt_threads_flag
                      THEN "done" ELSE "listen"])
    /\ UNCHANGED <<win, Globals, ThreadFrame>>

\* lines the model keeps of the queue while the threads are followed
MaxThreadQueue == 1

\* lines 1359-1367: listen_port returns a line and has queued it, or returns
\* False after a connection error that the reconnects did not repair, or
\* returns at once while serial_safe is false; on a connection that is None
\* read() raises AttributeError
T_Listen(i) ==
    /\ Console(i).pc = "listen"
    /\ IF ~serial_safe
           THEN /\ SetConsole(i, [Console(i) EXCEPT !.pc = "after"])
                /\ UNCHANGED <<serial_safe, serial_data>>
           ELSE IF ~serial_connection.handle
           THEN /\ SetConsole(i, [Console(i) EXCEPT !.pc = "raised"])
                /\ UNCHANGED <<serial_safe, serial_data>>
           ELSE \E lost \in BOOLEAN :
                    /\ SetConsole(i, [Console(i) EXCEPT
                           !.pc = IF lost THEN "done" ELSE "after"])
                    /\ serial_safe' = ~lost
                    /\ serial_data' =
                           IF ~lost /\ Len(serial_data) < MaxThreadQueue
                               THEN Append(serial_data,
                                           [id |-> 0, text |-> "tick"])
                               ELSE serial_data
    /\ UNCHANGED <<win, serial_connection, working_com_port, line_break_rx,
                   line_break_tx, ThreadFrame>>

\* lines 1370-1372, then the line is printed (lines 1374-1383)
T_After(i) ==
    /\ Console(i).pc = "after"
    /\ SetConsole(i, [Console(i) EXCEPT
           !.pc = IF win.halt_threads_flag THEN "done" ELSE "top"])
    /\ UNCHANGED <<win, Globals, ThreadFrame>>

serial_console(i) ==
    \/ T_Change(i)
    \/ T_OpenTest(i)
    \/ T_Create(i)
    \/ T_Assign(i)
    \/ T_Connected(i)
    \/ T_Failed(i)
    \/ T_Top(i)
    \/ T_Listen(i)
    \/ T_After(i)

(***************************************************************************)
(* SpecStart: the first 'console' thread is in its console loop on COM3    *)
(* and the user picks ports, opens and closes the PUIbtool window and runs *)
(* the tool.                                                               *)
(***************************************************************************)
InitStart ==
    /\ InitGlobals
    /\ serial_data = <<>>
    /\ data_safe = TRUE
    /\ current_status = InitStatus
    /\ ppc = [t \in ParseThreads |-> "idle"]
    /\ returned = <<>>
    /\ InitThreads
    /\ InitCalls
    /\ win = [NoWindow EXCEPT !.console_thread = 1]
    /\ thr = [NoThreads EXCEPT !.made = 1, !.console[1].pc = "top",
                               !.console[1].port = "COM3"]

NextStart ==
    \/ \E port \in Ports : G_Menu(port)
    \/ G_OpenPuibtool
    \/ G_ExitPuib
    \/ P_Run
    \/ \E c \in Callers : start_console_thread(c)
    \/ \E i \in ConsoleIds : serial_console(i)

SpecStart == InitStart /\ [][NextStart]_vars

\* C24: at no time are two 'console' threads inside listen_port
C24_OneReader ==
    Cardinality({i \in ConsoleIds : Console(i).pc = "listen"}) <= 1

\* both callers were inside start_console_thread at once and each started
\* a 'console' thread that is now in its console loop
C24_TwoReaders ==
    \E i, j \in ConsoleIds :
        /\ i # j
        /\ Console(i).pc = "listen"
        /\ Console(j).pc = "listen"
        /\ win.console_thread = j

\* C24, one caller at a time: while no two calls of start_console_thread
\* overlap, the thread that is started finds every earlier one ended
C24_OneCallerJoins ==
    \A i, j \in ConsoleIds :
        (/\ i < j
         /\ Console(j).pc \notin {"none", "created"}
         /\ thr.caller["puibtool"].from = "")
            => Console(i).pc \in {"done", "raised"}

\* the Serial objects that are open: the connection and the objects still
\* held in the local ser of open_port
OpenHandles ==
    (IF serial_connection.is_open THEN 1 ELSE 0)
        + Cardinality({i \in ConsoleIds : Console(i).ser.is_open})

\* C21: at most one serial connection handle is open at any time
C21_OneHandle == OpenHandles <= 1

\* two 'console' threads were inside open_port at once: one has made its
\* object the connection while the other holds a second open object
C21_TwoHandles ==
    \E i \in ConsoleIds :
        /\ serial_connection.is_open
        /\ Console(i).ser.is_open
        /\ Console(i).ser.port # serial_connection.port

(***************************************************************************)
(* SpecReboot: the event scan has found DEVICE_REBOOT and cleared the      *)
(* queue, and update_status calls wait_for_reboot (lines 1586-1588) while  *)
(* the reader goes on: it returns lines, loses the connection, reconnects  *)
(* or gives up.                                                            *)
(***************************************************************************)
\* lines the queue may hold while the behaviours of SpecReboot go on
MaxRebootQueue == 2

\* more lines than the reader of SpecReboot can return
MaxRebootLines == 2 * MaxRebootQueue + 3

RebootInputs == {"tick", BootMarker}

InitReboot ==
    /\ InitGlobals
    /\ serial_data = <<>>
    /\ data_safe = TRUE
    /\ current_status = [InitStatus EXCEPT !.event = "Device Reboot"]
    /\ ppc = [t \in ParseThreads |->
                 IF t = "status" THEN "chk_reboot" ELSE "idle"]
    /\ returned = <<>>
    /\ InitThreads
    /\ InitHistory

\* listen_port returns a line while the queue of the model has room
R_RebootLine ==
    /\ Len(serial_data) < MaxRebootQueue
    /\ R_Line(RebootInputs, MaxRebootLines)

ReaderOfReboot ==
    \/ R_RebootLine
    \/ R_CheckEvent
    \/ R_AppendReboot
    \/ R_CheckClear
    \/ R_CheckPop
    \/ R_CheckSleep
    \/ R_Append
    \/ R_Console
    \/ R_ReadFail
    \/ R_Reconnect
    \/ R_Retry
    \/ R_Reconnected

NextReboot ==
    \/ ReaderOfReboot
    \/ U_CheckReboot
    \/ RebootWait

SpecReboot == InitReboot /\ [][NextReboot]_vars

\* line 628: the for loop is at a line when more than 210 s have passed
W_Timeout ==
    /\ W_Scan
    /\ ppc'["status"] = "w_event"

\* every thread that can run does run, and the clock passes 210 s while
\* the for loop still finds lines to test
FairReboot ==
    /\ SpecReboot
    /\ WF_vars(U_CheckReboot \/ RebootWait)
    /\ WF_vars(ReaderOfReboot)
    /\ SF_vars(W_Timeout)

InWait == ppc["status"] \in {"w_take", "w_scan"}

\* C22: wait_for_reboot always returns, whatever the reader does
C22_AlwaysReturns == InWait ~> (ppc["status"] = "clear_info")

\* C22, with a line queued: once a line is in the queue during the wait,
\* wait_for_reboot returns
C22_ReturnsOnceQueued ==
    (InWait /\ serial_data # <<>>) ~> (ppc["status"] = "clear_info")

\* the reader has given up after six failed reconnects and the wait goes
\* on over an empty queue
C22_Stuck ==
    /\ ppc["status"] = "w_scan"
    /\ serial_data = <<>>
    /\ rpc = "done"

\* the bound on the lines of SpecReboot never stops the reader
C22_ReaderNotCapped == nlines < MaxRebootLines

(***************************************************************************)
(* The 'status' thread (update_status, lines 1523-1597) as far as its      *)
(* flags and waits go, and exit_main (lines 1854-1885).                    *)
(***************************************************************************)
StatusFrame ==
    <<serial_connection, working_com_port, serial_safe, device_sleep,
      breakVars, current_settings, rpc, line, ret, parseVars, framerVars,
      retryVars, nlines, returned, last_pushed, snapVars, pushVars, api,
      sent>>

\* lines 1528-1535 and 1594-1597: the flags are tested once per round
US_Top ==
    /\ thr.status = "top"
    /\ thr' = [thr EXCEPT !.status =
                  IF /\ ~win.halt_threads_flag
                     /\ win.extend_window_flag
                     /\ ~win.run_puibtool_flag
                      THEN "poll" ELSE "done"]
    /\ UNCHANGED <<win, serial_data, data_safe, recordVars, StatusFrame>>

\* lines 1537-1585: the scans of this round; the event scan finds a
\* DEVICE_REBOOT line or it does not (lines 589-596)
US_Poll ==
    /\ thr.status = "poll"
    /\ \E reboot \in BOOLEAN :
           IF reboot /\ serial_data # <<>>
               THEN /\ current_status' =
                           [current_status EXCEPT !.event = "Device Reboot"]
                    /\ serial_data' = <<>>
               ELSE UNCHANGED <<current_status, serial_data>>
    /\ thr' = [thr EXCEPT !.status = "chk"]
    /\ UNCHANGED <<win, data_safe, device_info, current_settings,
                   StatusFrame>>

\* line 1586, and line 624 of wait_for_reboot
US_Check ==
    /\ thr.status = "chk"
    /\ IF current_status.event = "Device Reboot"
           THEN /\ thr' = [thr EXCEPT !.status = "wait"]
                /\ data_safe' = FALSE
           ELSE /\ thr' = [thr EXCEPT !.status = "top"]
                /\ UNCHANGED data_safe
    /\ UNCHANGED <<win, serial_data, recordVars, StatusFrame>>

\* wait_for_reboot lines 626-640 and clear_info (line 1589): the for loop
\* has a line to test and finds the marker or the 210 s passed
US_Wait ==
    /\ thr.status = "wait"
    /\ serial_data # <<>>
    /\ current_status' = [current_status EXCEPT !.event = "Reboot Complete"]
    /\ device_info' = [k \in DOMAIN device_info |-> ""]
    /\ serial_data' = <<>>
    /\ data_safe' = TRUE
    /\ thr' = [thr EXCEPT !.status = "top"]
    /\ UNCHANGED <<win, current_settings, StatusFrame>>

update_status ==
    \/ US_Top
    \/ US_Poll
    \/ US_Check
    \/ US_Wait

\* line 1858
G_ExitMain ==
    /\ thr.caller["gui"].pc = "idle"
    /\ ~win.exiting
    /\ win' = [win EXCEPT !.halt_threads_flag = TRUE, !.exiting = TRUE]
    /\ SetCaller("gui", [NoStart EXCEPT !.pc = "e_console",
                                        !.from = "exit_main"])
    /\ UNCHANGED <<Globals, ThreadFrame>>

\* line 1860
E_JoinConsole ==
    /\ thr.caller["gui"].pc = "e_console"
    /\ \/ win.console_thread = 0
       \/ Console(win.console_thread).pc \in {"done", "raised"}
    /\ SetCaller("gui", [thr.caller["gui"] EXCEPT !.pc = "e_status"])
    /\ UNCHANGED <<win, Globals, ThreadFrame>>

\* line 1862
E_JoinStatus ==
    /\ thr.caller["gui"].pc = "e_status"
    /\ thr.status \in {"none", "done"}
    /\ SetCaller("gui", [thr.caller["gui"] EXCEPT !.pc = "e_close"])
    /\ UNCHANGED <<win, Globals, ThreadFrame>>

\* lines 1864-1885: the port is closed and the program exits
E_Close ==
    /\ thr.caller["gui"].pc = "e_close"
    /\ IF serial_connection.handle
           THEN \E flushed \in BOOLEAN : CloseNow(flushed)
           ELSE UNCHANGED <<serial_connection, working_com_port, serial_safe,
                            serial_data>>
    /\ SetCaller("gui", [thr.caller["gui"] EXCEPT !.pc = "exited"])
    /\ UNCHANGED <<win, line_break_rx, line_break_tx, ThreadFrame>>

exit_main ==
    \/ G_ExitMain
    \/ E_JoinConsole
    \/ E_JoinStatus
    \/ E_Close

(***************************************************************************)
(* SpecHalt: the extended window is open, both loops run, and the user     *)
(* picks ports in the COM port menu and closes the main window.            *)
(***************************************************************************)
InitHalt ==
    /\ InitGlobals
    /\ serial_data = <<>>
    /\ data_safe = TRUE
    /\ current_status = InitStatus
    /\ ppc = [t \in ParseThreads |-> "idle"]
    /\ returned = <<>>
    /\ InitThreads
    /\ InitCalls
    /\ win = [NoWindow EXCEPT !.console_thread = 1,
                              !.extend_window_flag = TRUE]
    /\ thr = [NoThreads EXCEPT !.made = 1, !.console[1].pc = "top",
                               !.console[1].port = "COM3",
                               !.status = "top"]

ConsoleOfHalt(i) ==
    \/ serial_console(i)
    \/ T_Extend(i)
    \/ T_JoinStatus(i)

WindowOfHalt ==
    \/ \E port \in Ports : G_Menu(port)
    \/ start_console_thread("gui")
    \/ exit_main

NextHalt ==
    \/ WindowOfHalt
    \/ \E i \in ConsoleIds : ConsoleOfHalt(i)
    \/ update_status

SpecHalt == InitHalt /\ [][NextHalt]_vars

\* every thread that can step does
FairHalt ==
    /\ SpecHalt
    /\ WF_vars(WindowOfHalt)
    /\ \A i \in ConsoleIds : WF_vars(ConsoleOfHalt(i))
    /\ WF_vars(update_status)

Ended(i) == Console(i).pc \in {"none", "created", "done", "raised"}

\* C23: once exit_main has set halt_threads_flag the reader loop and the
\* poller loop end
C23_HaltStops ==
    win.exiting ~> ((\A i \in ConsoleIds : Ended(i))
                        /\ thr.status \in {"none", "done"})

\* exit_main has set halt_threads_flag, the 'console' thread was in its
\* connection loop, has connected, has reset the flag (line 1311) and reads
C23_ReaderRunsAfterHalt ==
    /\ win.exiting
    /\ ~win.halt_threads_flag
    /\ thr.status \in {"none", "done"}
    /\ \E i \in ConsoleIds : Console(i).pc = "listen"

\* exit_main waits while the poller is inside wait_for_reboot over an
\* empty queue
C23_PollerInWait ==
    /\ win.exiting
    /\ thr.status = "wait"
    /\ serial_data = <<>>
    /\ \A i \in ConsoleIds : Console(i).pc \notin {"listen", "after"}

\* C23, console loop: a reader that is in its console loop while
\* halt_threads_flag is set ends
C23_ConsoleLoopStops ==
    \A i \in ConsoleIds :
        (/\ win.halt_threads_flag
         /\ Console(i).pc \in {"top", "listen", "after"})
            ~> Ended(i)

(***************************************************************************)
(* Claims about the data_safe sections (SpecSnapshot, SpecQueue).          *)
(***************************************************************************)
\* positions of parse_serial_data between data_safe = False (line 497) and
\* data_safe = True (lines 503, 510, 527, 534, 606)
ParseSection ==
    {"p_send", "p_sending", "p_abort", "p_copy", "p_clear", "p_release_ex",
     "p_scan", "p_release", "ev_event", "ev_clear", "sl_state", "sl_latch",
     "sl_clear", "st_state", "st_vin", "st_batt", "v_vin", "v_batt",
     "v_clear"}

\* positions of wait_for_reboot between lines 624 and 639
WaitSection ==
    {"w_scan", "w_event", "w_main", "w_imei", "w_clear", "w_release"}

\* positions of listen_port between lines 460 and 465, and 471 and 473
PushSection == {"ovf_clear", "ovf_release", "pop", "pop_release"}

\* the parties inside their data_safe section
SectionHolders ==
    {t \in ParseThreads : ppc[t] \in ParseSection \cup WaitSection}
        \cup (IF rpc \in PushSection THEN {"console"} ELSE {})

\* C25: at most one party is inside its data_safe section at any moment
C25_OneHolder == Cardinality(SectionHolders) <= 1

\* the 'status' thread and the 'settings' thread have both passed the test
\* of line 494 and are both inside an extraction
C25_TwoExtractions ==
    /\ ppc["status"] \in ParseSection
    /\ ppc["settings"] \in ParseSection

\* the reader is inside its eviction while the poller is inside a scan or
\* the reboot wait
C25_ReaderAndPoller ==
    /\ rpc \in PushSection
    /\ ppc["status"] \in ParseSection \cup WaitSection

(***************************************************************************)
(* Claims about the order of the queue (SpecOrder).  A line is [id, text]  *)
(* and listen_port gives its lines the ids 1, 2, ... in the order in which *)
(* it returns them; the lines queued before the behaviour starts have the  *)
(* ids below 1, oldest first.                                              *)
(***************************************************************************)
\* lines listen_port returns in the behaviours of SpecOrder
MaxOrderLines == 3

\* the queue holds 200 lines: the poller is outside parse_serial_data, or
\* the device is rebooting, the reader has queued the lines without limit
\* and the poller is inside wait_for_reboot
InitOrder ==
    /\ InitGlobals
    /\ InitThreads
    /\ InitHistory
    /\ returned = <<>>
    /\ serial_data = Backlog(FillPop)
    /\ \/ /\ current_status = InitStatus
          /\ data_safe = TRUE
          /\ ppc = [t \in ParseThreads |-> "idle"]
       \/ /\ current_status = [InitStatus EXCEPT !.event = "Device Reboot"]
          /\ data_safe = FALSE
          /\ ppc = [t \in ParseThreads |->
                       IF t = "status" THEN "w_scan" ELSE "idle"]

\* the reader pushes and evicts, and wait_for_reboot clears the queue
NextOrder ==
    \/ Reader(QueueInputs, MaxOrderLines)
    \/ R_PopFlag
    \/ R_PopTake
    \/ R_Pop
    \/ R_PopRelease
    \/ W_Scan
    \/ W_Event
    \/ W_Main
    \/ W_Imei
    \/ W_Clear
    \/ W_Release
    \/ U_ClearInfo

SpecOrder == InitOrder /\ [][NextOrder]_vars

\* C26: the queue holds lines that listen_port has built, each once, in the
\* order in which listen_port returned them (every line is older than the
\* next one), and no queued line comes after the line just pushed
C26_ArrivalOrder ==
    /\ \A i \in 1..(Len(serial_data) - 1) :
           serial_data[i].id < serial_data[i + 1].id
    /\ serial_data # <<>> =>
           /\ serial_data[Len(serial_data)].id <= nlines
           /\ rpc = "console" => serial_data[Len(serial_data)].id >= last_pushed

\* lines were removed from the queue and later lines were pushed: the queue
\* holds several lines, the newest last, and no longer the oldest one
\* listen_port returned
C26_Witness ==
    /\ Len(serial_data) >= 2
    /\ evicted # NoLine
    /\ rpc = "console"
    /\ Head(serial_data).id > evicted.id
    /\ serial_data[Len(serial_data)].id = nlines

(***************************************************************************)
(* Claims about the event scan on an unknown event code (SpecScanErrors).  *)
(***************************************************************************)
\* thread t is about to leave an event scan that stopped at a line whose
\* event code is not in EVENTS
UnknownEventSeen(t) ==
    /\ ppc[t] = "p_release"
    /\ target[t] = HookEvent
    /\ ScanFails(t)

\* C27: when the event scan has met an unknown event code, the queue has
\* been cleared by the time the scan ends, so the line is no longer queued
C27_UnknownEventClears ==
    \A t \in ParseThreads :
        UnknownEventSeen(t) => pline[t].id \notin Ids(serial_data)

\* C27, the first two parts: the step on an unknown event code leaves the
\* last event as it was and ends the scan of this call
C27_UnknownEventAborts ==
    [][\A t \in ParseThreads :
          (/\ ppc[t] = "ev_event"
           /\ ppc'[t] # ppc[t]
           /\ EventCode(pline[t].text) \notin EventCodes)
              => /\ current_status'.event = current_status.event
                 /\ ppc'[t] = "p_release"
      ]_vars

\* the scan has ended on the unknown code and the line is still first in
\* the queue, where the next event scan meets it again
C27_LineStays ==
    /\ UnknownEventSeen("status")
    /\ serial_data # <<>>
    /\ Head(serial_data) = pline["status"]
    /\ Len(serial_data) >= 2
    /\ current_status.event = InitStatus.event

(***************************************************************************)
(* Claims about a malformed line in an extraction (SpecFields).            *)
(***************************************************************************)
\* the positions of the snapshot lines of thread t that hold the key
LinesOf(t, key) ==
    {i \in 1..Len(temp[t]) : Contains(RemoveTabs(temp[t][i].text), key)}

\* every snapshot line that holds the key has a value after '='
WellFormed(t, key) ==
    /\ LinesOf(t, key) # {}
    /\ \A i \in LinesOf(t, key) : Contains(temp[t][i].text, "=")

\* the Settings extraction of thread t returns in this step
SettingsReturn(t) ==
    /\ ppc[t] = "p_keys"
    /\ target[t] = "Settings"
    /\ ppc'[t] = "idle"

\* C28: when a Settings extraction ends, every field whose lines in the
\* snapshot are well formed has been updated from them, whatever malformed
\* line another field met
C28_OtherFieldsUpdated ==
    [][\A t \in ParseThreads :
          SettingsReturn(t) =>
              \A k \in Range(SettingKeys) :
                  WellFormed(t, k) =>
                      current_settings'[k] =
                          ValueIn(t, temp[t][Last(LinesOf(t, k))].text)
      ]_vars

\* C28, the fields before the malformed line: when a Settings extraction
\* ends, the well-formed fields that precede the first field with a
\* malformed line have been updated
C28_EarlierFieldsUpdated ==
    [][\A t \in ParseThreads :
          SettingsReturn(t) =>
              \A n \in 1..Len(SettingKeys) :
                  (\A m \in 1..n : WellFormed(t, SettingKeys[m])) =>
                      current_settings'[SettingKeys[n]] =
                          ValueIn(t, temp[t][Last(LinesOf(t, SettingKeys[n]))].text)
      ]_vars

\* the extraction is at the key of field 06, whose line has no '=', and the
\* snapshot also holds a well-formed line for field 62, which still has its
\* old value
C28_MalformedFirst ==
    /\ ppc["settings"] = "p_keys"
    /\ kidx["settings"] = 1
    /\ Texts(temp["settings"]) = <<"settings[06]", "settings[62]=1.2.3.4">>
    /\ current_settings["settings[62]"] = ""

(***************************************************************************)
(* Claims about the command of an extraction (SpecSnapshot).               *)
(***************************************************************************)
Extractions == {"Settings", "Version"}

\* the connection is live: open, and not marked lost by the reader
Live ==
    /\ serial_connection.handle
    /\ serial_connection.is_open
    /\ serial_safe

\* thread t leaves parse_serial_data in this step
Leaves(t) == target[t] # "" /\ target'[t] = ""

\* C29: a call of parse_serial_data('Settings') or parse_serial_data(
\* 'Version') made while the connection is live sends its command before the
\* queue is read, for every queue content: no such call returns from the
\* tests of lines 494 and 496, which come before the send of lines 501 and
\* 525.
C29_AlwaysSends ==
    [][\A t \in ParseThreads :
          (target[t] \in Extractions /\ Live /\ Leaves(t))
              => ppc[t] \notin {"p_len", "p_flag"}]_vars

\* C29, the part that holds: the return after a failed send (lines 502-503
\* and 526-527) releases data_safe and leaves the queue and every record as
\* they were.
C29_AbortKeepsData ==
    [][\A t \in ParseThreads :
          (ppc[t] = "p_abort" /\ Leaves(t))
              => /\ data_safe'
                 /\ serial_data' = serial_data
                 /\ recordVars' = recordVars
                 /\ device_sleep' = device_sleep]_vars

\* C29, the part that holds: a call that has passed the tests of lines 494
\* and 496 reads the queue (lines 508 and 532) only after its send
C29_SendBeforeCopy ==
    [][\A t \in ParseThreads :
          (ppc[t] # "p_copy" /\ ppc'[t] = "p_copy") => ppc[t] = "p_send"]_vars

\* an extraction is called on an empty queue while the connection is live
C29_CalledOnEmptyQueue ==
    \E t \in ParseThreads :
        /\ target[t] \in Extractions
        /\ ppc[t] = "p_len"
        /\ serial_data = <<>>
        /\ Live

\* an extraction is about to return after a failed send
C29_SendFailed ==
    \E t \in ParseThreads :
        target[t] \in Extractions /\ ppc[t] = "p_abort"

(***************************************************************************)
(* Claims about the line a continuous scan acts on (SpecStatus, SpecVolts).*)
(***************************************************************************)
\* the position of the first (oldest) line of q that holds the marker tg,
\* 0 when no line does
FirstMatching(q, tg) ==
    LET S == {i \in 1..Len(q) : Contains(q[i].text, tg)}
    IN  IF S = {} THEN 0 ELSE CHOOSE i \in S : \A j \in S : i <= j

\* thread t executes, in this step, an assignment or a clear of the branch
\* of hook tg for the line it has fetched (lines 559-562, 566-579, 583-585)
ActsFor(t, tg) ==
    /\ target[t] = tg
    /\ ppc[t] \in {"v_vin", "v_clear", "st_state", "ev_event"}
    /\ ppc'[t] # ppc[t]

\* C30: each continuous scan (state, voltage or event hook) acts on the
\* first queue line that contains its marker only: the line whose branch it
\* executes is the oldest queued line holding the marker, so with several
\* such lines the status fields come from the first.
C30_FirstMatchOnly ==
    [][\A t \in ParseThreads : \A tg \in STATUS_HOOKS :
          ActsFor(t, tg) => idx[t] = FirstMatching(serial_data, tg)]_vars

\* C30, the part that holds: the voltage scan and the event scan, which
\* break after their assignment, act on the first matching line only
C30_VoltsAndEventFirst ==
    [][\A t \in ParseThreads : \A tg \in {HookVolts, HookEvent} :
          ActsFor(t, tg) => idx[t] = FirstMatching(serial_data, tg)]_vars

\* the state scan has assigned the state from one line and is about to
\* assign it again from a later line of the same call
C30_SecondStateLine ==
    \E t \in ParseThreads :
        /\ target[t] = HookState
        /\ ppc[t] = "st_state"
        /\ FirstMatching(serial_data, HookState) # 0
        /\ idx[t] > FirstMatching(serial_data, HookState)
        /\ StateToken(serial_data[FirstMatching(serial_data, HookState)].text)
               \in VALID_STATES

\* an event scan is about to act on the first of two queued event lines
C30_TwoEventLines ==
    \E t \in ParseThreads :
        /\ target[t] = HookEvent
        /\ ppc[t] = "ev_event"
        /\ Cardinality({i \in 1..Len(serial_data) :
                           Contains(serial_data[i].text, HookEvent)}) > 1

(***************************************************************************)
(* Claims about the pending-CR flag (SpecFramer).                          *)
(***************************************************************************)
\* the last byte of the reads r, empty reads skipped; "" when there is none
RECURSIVE LastByte(_)
LastByte(r) ==
    IF Len(r) = 0 THEN ""
    ELSE IF SubSeq(r, Len(r), Len(r)) = "_"
         THEN LastByte(SubSeq(r, 1, Len(r) - 1))
         ELSE SubSeq(r, Len(r), Len(r))

\* this step reads an LF and the loop breaks on it (lines 399 and 401-403):
\* a line that is not the sentinel of line 423 is returned
LFEndsLine ==
    /\ Len(reads') = Len(reads) + 1
    /\ SubSeq(reads', Len(reads'), Len(reads')) = "\n"
    /\ Len(returned') = Len(returned) + 1
    /\ returned'[Len(returned')] # Sentinel

\* C31: under the CRLF receive policy a line is terminated only by an LF
\* that completes a CR-LF pair: the byte read before that LF is a CR.  An LF
\* after a CR flag left over from an earlier call, or after a CR that was
\* followed by data bytes, terminates nothing.
C31_OnlyPairTerminates ==
    [][(line_break_rx[3] # 0 /\ LFEndsLine) => LastByte(reads) = "\r"]_vars

\* C31, the part that holds: under the CRLF policy an LF terminates a line
\* only while the pending-CR flag is 2 and the line is not empty, and the
\* flag is 1 again afterwards
C31_FlagTerminates ==
    [][(line_break_rx[3] # 0 /\ LFEndsLine)
          => /\ line_break_rx[3] = 2
             /\ line.text # ""
             /\ line_break_rx'[3] = 1]_vars

\* a call has ended by its 10 s limit with the pending-CR flag set, and the
\* next call has read a data byte
C31_StaleFlag ==
    /\ line_break_rx[3] = 2
    /\ timeouts > 0
    /\ rpc = "listen"
    /\ line.text # ""
    /\ LastByte(reads) \notin {"\r", "\n", ""}
    /\ returned # <<>>
    /\ returned[Len(returned)] = Sentinel

\* a CR has been followed by a data byte in the same line, no timeout
C31_DataAfterCR ==
    /\ line_break_rx[3] = 2
    /\ timeouts = 0
    /\ rpc = "listen"
    /\ Contains(Consumed(reads), "\ra")

(***************************************************************************)
(* Claims about a scan after an index error (SpecScanErrors).              *)
(***************************************************************************)
\* the positions after the line thread t has fetched that hold a state
\* line the state branch processes without error
LaterStateLines(t) ==
    {i \in (idx[t] + 1)..Len(serial_data) :
        /\ Contains(serial_data[i].text, HookState)
        /\ StateToken(serial_data[i].text) \in VALID_STATES
        /\ Contains(serial_data[i].text, "Vin")
               => Contains(serial_data[i].text, "Batt")}

\* the statement at line 579 raises IndexError in this step of thread t
IndexErrorStep(t) ==
    /\ ppc[t] = "st_batt"
    /\ ScanFails(t)
    /\ ppc'[t] # ppc[t]

\* C32: a continuous scan that hits an index-out-of-range error on a
\* malformed line goes on with the next queue line, so a later well-formed
\* matching line of the same queue is still processed by that call.
C32_ScanContinues ==
    [][\A t \in ParseThreads :
          (IndexErrorStep(t) /\ LaterStateLines(t) # {})
              => ppc'[t] = "p_scan"]_vars

\* C32, what the code does: the handler of lines 589-591 leaves the loop,
\* the call releases data_safe and returns, and the queue keeps every line
C32_ScanAborts ==
    [][\A t \in ParseThreads :
          IndexErrorStep(t)
              => /\ ppc'[t] = "p_release"
                 /\ serial_data' = serial_data]_vars

\* a state scan is about to return after an index error while a well-formed
\* state line that it has not fetched is queued behind the malformed one
C32_LaterLineSkipped ==
    \E t \in ParseThreads :
        /\ ppc[t] = "p_release"
        /\ target[t] = HookState
        /\ ScanFails(t)
        /\ LaterStateLines(t) # {}

(***************************************************************************)
(* SpecWindow: the reader and the 'status' thread around a device reboot.  *)
(* The reboot event line is queued and the poller is about to call its     *)
(* event scan; the reader pushes while the scan, the reboot wait and       *)
(* clear_info run.  Device Info has been read before.                      *)
(***************************************************************************)
\* lines listen_port returns in the behaviours of SpecWindow
MaxWindowLines == 2

RebootLine == HookEvent \o " DEVICE_REBOOT"

WindowInputs == {"tick", BootMarker}

\* the reboot event line, the oldest, with n lines queued behind it
RebootQueue(n) ==
    [i \in 1..(n + 1) |->
        [id |-> i - n - 1, text |-> IF i = 1 THEN RebootLine ELSE "tick"]]

\* the queue is long enough for the eviction of line 469, or the sentinel
\* handling has set the sleep latch and cleared the queue before the event
\* line was pushed
InitWindow ==
    /\ serial_connection = [handle |-> TRUE, port |-> "COM3", is_open |-> TRUE]
    /\ working_com_port = "COM3"
    /\ serial_safe = TRUE
    /\ line_break_rx = <<1, 0, 0>>
    /\ line_break_tx = <<1, 0, 0>>
    /\ device_info = [k \in Range(InfoKeys) |-> "A1"]
    /\ current_settings = [k \in Range(SettingKeys) |-> ""]
    /\ \/ /\ device_sleep = FALSE
          /\ current_status = InitStatus
          /\ serial_data = RebootQueue(FillPop)
       \/ /\ device_sleep = TRUE
          /\ current_status = [InitStatus EXCEPT !.state = "Sleeping"]
          /\ serial_data = RebootQueue(0)
    /\ data_safe = TRUE
    /\ ppc = [t \in ParseThreads |->
                 IF t = "status" THEN "call_event" ELSE "idle"]
    /\ returned = <<>>
    /\ InitThreads
    /\ InitHistory

NextWindow ==
    \/ Reader(WindowInputs, MaxWindowLines)
    \/ R_PopFlag
    \/ R_PopTake
    \/ R_Pop
    \/ R_PopRelease
    \/ R_SetStopped
    \/ R_ClearLatch
    \/ U_CallEvent
    \/ P_CheckLen("status")
    \/ P_CheckFlag("status")
    \/ P_Take("status")
    \/ P_Scan("status")
    \/ P_Event("status")
    \/ P_EventClear("status")
    \/ P_Release("status")
    \/ U_CheckReboot
    \/ RebootWait

SpecWindow == InitWindow /\ [][NextWindow]_vars

(***************************************************************************)
(* Claims about the reader during a reboot (SpecWindow).                   *)
(***************************************************************************)
\* the reader removes lines or updates the sleep latch in this step:
\* lines 464, 472 and 477-478
ReaderEvicts ==
    /\ rpc \in {"ovf_clear", "pop", "set_stopped", "clear_latch"}
    /\ rpc' # rpc

C33_LateEviction ==
    /\ rpc = "pop_release"
    /\ current_status.event = "Device Reboot"
    /\ evicted # NoLine

(***************************************************************************)
(* Claims about the end of the reboot wait (SpecWindow).                   *)
(***************************************************************************)
\* the 'status' thread goes from position a to another position
StatusLeaves(a) == ppc["status"] = a /\ ppc'["status"] # a

\* C34: the reboot wait is entered only when the last event is 'Device
\* Reboot', which an event-hook scan has set; before it completes it clears
\* the queue; and when it completes (its return, line 640) the last event is
\* no longer 'Device Reboot', the firmware and identity fields of Device
\* Info are empty and data_safe is released.
C34_RebootWait ==
    /\ [][(ppc["status"] # "w_take" /\ ppc'["status"] = "w_take")
             => /\ current_status.event = "Device Reboot"
                /\ ppc["status"] = "chk_reboot"]_vars
    /\ [][(current_status.event # "Device Reboot"
              /\ current_status'.event = "Device Reboot")
             => /\ StatusLeaves("ev_event")
                /\ target["status"] = HookEvent]_vars
    /\ [][StatusLeaves("w_clear") => serial_data' = <<>>]_vars
    /\ [][StatusLeaves("w_release")
             => /\ data_safe'
                /\ current_status'.event = "Reboot Complete"
                /\ device_info'["main"] = ""
                /\ device_info'["imei"] = ""]_vars

\* the reboot wait has returned after the event scan found the reboot line:
\* Device Info, read before, is empty and the queue holds only what the
\* reader pushed after the clear
C34_Witness ==
    /\ ppc["status"] = "clear_info"
    /\ current_status.event = "Reboot Complete"
    /\ device_info["main"] = ""
    /\ device_info["imei"] = ""
    /\ data_safe
    /\ \A i \in 1..Len(serial_data) : serial_data[i].id > 0

(***************************************************************************)
(* Claims about serial_safe and the connection handle (SpecSend).          *)
(***************************************************************************)
\* C35: in every reachable state, under any interleaving of close_port, the
\* reader's read and reconnect sequence and send_serial_command,
\* serial_safe being true implies that a connection handle exists.
C35_SafeImpliesHandle == serial_safe => serial_connection.handle

\* C35, its consequence: no write is attempted on a released (None) handle
C35_NoUseOfNone ==
    \A t \in Senders : sent[t].res # "AttributeError"

\* the reader has called read() on None: the 'console' thread has ended
\* with an AttributeError
C35_ReadOfNone ==
    /\ rpc = "raised"
    /\ serial_safe
    /\ ~serial_connection.handle

\* C35, what holds: serial_safe is true without a handle only when a
\* close_port has gone past its serial_safe = False (line 319)
C35_OnlyAfterClose ==
    (serial_safe /\ ~serial_connection.handle)
        => (api.op = "close" /\ api.pc \notin {"c_test", "c_unsafe"})

(***************************************************************************)
(* Claims about lines pushed during an extraction (SpecSnapshot).          *)
(***************************************************************************)
\* C36: no line is lost at a snapshot: every line the reader has appended
\* is in the snapshot of an extraction or still in the queue.
C36_NoLineLost ==
    \A i \in 1..last_pushed : i \in snapped \cup Ids(serial_data)

\* C36, the part that holds: a line the reader appends after the clear of
\* an extraction (line 509 or 533) stays in the queue while that extraction
\* looks up its fields; only a second extraction can take it out
C36_KeptAfterClear ==
    [][\A t \in ParseThreads :
          (/\ ppc[t] \in PastClear
           /\ \A u \in ParseThreads \ {t} : ppc[u] # "p_clear")
              => \A i \in 1..Len(serial_data) :
                    \E j \in 1..Len(serial_data') :
                        serial_data'[j] = serial_data[i]]_vars

\* the reader has appended a line between the copy() and the clear() of the
\* one extraction that is running
C36_PushBetweenCopyAndClear ==
    \E t \in ParseThreads :
        /\ ppc[t] = "p_clear"
        /\ \A u \in ParseThreads \ {t} : target[u] = ""
        /\ last_pushed > mark[t]
        /\ serial_data # <<>>
        /\ serial_data[Len(serial_data)].id = last_pushed

(***************************************************************************)
(* Claims about event lines and the clears of the other scans (SpecStatus, *)
(* SpecVolts).                                                             *)
(***************************************************************************)
\* the positions of the queued lines that hold the event marker
EventLines == {i \in 1..Len(serial_data) :
                  Contains(serial_data[i].text, HookEvent)}

\* the queued line at position i is no longer queued after this step
Removed(i) ==
    \A j \in 1..Len(serial_data') : serial_data'[j].id # serial_data[i].id

\* C37: an event line that the reader has pushed is never discarded by a
\* state-hook, voltage-hook or sentinel clear before an event-hook scan has
\* examined it: an event line leaves the queue only by the clear that the
\* event scan executes after its assignment (lines 583-585).
C37_EventLineKept ==
    [][\A i \in EventLines :
          Removed(i) => (ppc["status"] = "ev_clear"
                           /\ target["status"] = HookEvent)]_vars

\* the sentinel handling of a state scan is about to clear a queue that
\* holds an event line no event scan has examined
C37_SentinelDiscardsEvent ==
    /\ ppc["status"] = "sl_clear"
    /\ target["status"] = HookState
    /\ EventLines # {}
    /\ current_status.event = InitStatus.event

\* a voltage scan is about to clear a queue that holds a line pushed after
\* the voltage line
C37_VoltsDiscardsLater ==
    /\ ppc["status"] = "v_clear"
    /\ target["status"] = HookVolts
    /\ idx["status"] < Len(serial_data)

\* C37, what holds: an event line that the event scan fetches is examined
\* by it (line 583)
C37_EventScanExamines ==
    [][(/\ ppc["status"] = "p_scan"
        /\ target["status"] = HookEvent
        /\ idx["status"] < Len(serial_data)
        /\ Contains(serial_data[idx["status"] + 1].text, HookEvent)
        /\ ppc'["status"] # "p_scan")
          => ppc'["status"] = "ev_event"]_vars

(***************************************************************************)
(* FairStart: SpecStart in which every 'console' thread and every caller   *)
(* of start_console_thread that can take a step does so (the threads are   *)
(* scheduled, every read() returns within its timeout and every open or    *)
(* close attempt ends); what the user does is not forced.                  *)
(***************************************************************************)
FairStart ==
    /\ SpecStart
    /\ \A i \in ConsoleIds : WF_vars(serial_console(i))
    /\ \A c \in Callers : WF_vars(start_console_thread(c))

\* caller c is waiting in the join of line 1287
Joining(c) == thr.caller[c].pc = "s_join"

\* C38: a port switch never blocks forever: whenever start_console_thread
\* waits for a previous 'console' thread, in its connect-retry loop, just
\* connected or in its console loop, that thread eventually ends and the
\* join returns.
C38_JoinReturns ==
    \A c \in Callers : Joining(c) ~> ~Joining(c)

\* C38, the part that holds: the join of a thread that is in its console
\* loop when the caller has set halt_threads_flag returns, as long as no
\* thread connects meanwhile (a connect resets the flag at line 1312)
C38_ConsoleLoopJoined ==
    \A c \in Callers :
        (Joining(c) /\ [](win.halt_threads_flag \/ win.run_puibtool_flag))
            ~> ~Joining(c)

\* the caller waits for a thread that has connected after the caller's
\* test of halt_threads_flag and is in its console loop with the flag reset
C38_JoinedThreadListens ==
    \E c \in Callers :
        /\ Joining(c)
        /\ Console(thr.caller[c].joins).pc = "listen"
        /\ ~win.halt_threads_flag
        /\ ~win.run_puibtool_flag

(***************************************************************************)
(* Claims about the release of data_safe (SpecSend, SpecSnapshot,          *)
(* SpecStatus, SpecScanErrors).                                            *)
(***************************************************************************)
\* C39, first half: a parse_serial_data that has set data_safe = False
\* (line 497) leaves its section only by one of the statements
\* data_safe = True (lines 502, 510, 526, 534, 606), whichever path it
\* takes
C39_TakerReleases ==
    [][\A t \in ParseThreads :
           (ppc[t] \in ParseSection /\ ppc'[t] \notin ParseSection)
               => data_safe']_vars

\* C39, second half: data_safe is set back to True only while the party
\* that does it is the one party inside its section
C39_ReleasedByHolder ==
    [][(~data_safe /\ data_safe') => Cardinality(SectionHolders) = 1]_vars

\* parse_serial_data was left by the AttributeError of send_serial_command:
\* no party is inside its section and data_safe is false for good
C39_FlagStuck ==
    /\ \E t \in ParseThreads : ppc[t] = "raised"
    /\ SectionHolders = {}
    /\ ~data_safe

\* a thread sets data_safe back to True (line 510 or 534) while another
\* one, which set it False after it, is still inside its extraction
C39_ReleasedUnderAnother ==
    /\ data_safe
    /\ \E t \in ParseThreads : ppc[t] = "p_keys"
    /\ \E u \in ParseThreads : ppc[u] \in {"p_copy", "p_clear"}

(***************************************************************************)
(* Claims about the state 'Sleeping' and the sleep latch (SpecStatus).     *)
(***************************************************************************)
\* no push and no scan is under way: the reader is outside lines 451-481
\* of listen_port and no thread is between lines 497 and 606 of
\* parse_serial_data
LatchSettled ==
    /\ rpc \in {"console", "listen"}
    /\ \A t \in ParseThreads : ppc[t] \notin ParseSection

\* C40: once the pushes and the scans that were under way are complete,
\* the state 'Sleeping' implies that the sleep latch device_sleep is set,
\* however the reader's latch clearing (lines 475-478) interleaves with
\* the poller's state hook (lines 565-574) and sentinel (lines 599-604)
C40_SleepingImpliesLatch ==
    LatchSettled => (current_status.state = "Sleeping" => device_sleep)

\* the state becomes 'Sleeping' only with the latch set (line 574) or just
\* before line 602 sets it, and the latch is cleared only by line 478,
\* just after line 477 has set the state
C40_SleepingSetWithLatch ==
    [][/\ (current_status.state # "Sleeping"
              /\ current_status'.state = "Sleeping")
             => (device_sleep \/ ppc'["status"] = "sl_latch")
       /\ (device_sleep /\ ~device_sleep')
             => (rpc = "clear_latch" /\ rpc' = "append")
      ]_vars

\* the poller wrote 'Sleeping' between the reader's lines 477 and 478: the
\* push and the scan are complete, the state is 'Sleeping', the latch is
\* clear
C40_SleepingWithoutLatch ==
    /\ LatchSettled
    /\ ret # ""
    /\ seen.latch = "yes"
    /\ current_status.state = "Sleeping"
    /\ ~device_sleep
=============================================================================
